---- MODULE Spec2Model ----
(***************************************************************************)
(* pymodoro: the countdown timer core (Period, CountdownTimer) and the     *)
(* windowed time-spent aggregator (TimeSpentWindowed) fed by the event     *)
(* store.                                                                  *)
(*                                                                         *)
(* Time is counted in integer ticks.  `clock` is time.monotonic(), which   *)
(* is positive on every supported platform; `wall` is pendulum.now().      *)
(* Floats are modelled by integers: rounding is not part of the model.     *)
(***************************************************************************)
EXTENDS Integers, Sequences, FiniteSets, TLC

VARIABLES
    clock,      \* time.monotonic()
    ct,         \* the CountdownTimer under test
    pre,        \* ghost: ct as it was when the last operation was called
    op,         \* ghost: name of the last operation ("tick" when time passed)
    ret,        \* ghost: value returned by the last operation
    restored,   \* the timer last rebuilt by from_state(dump_state(ct))
    openedAt,   \* ghost: clock of the last successful start()
    closedSum,  \* ghost: sum of the durations of the Periods closed by stop()
    wall,       \* pendulum.now()
    log,        \* EventStore: every event registered so far, in append order
    agg,        \* TimeSpentWindowed per window kind: events deque, prev_spent
    shown,      \* ghost: the total an aggregator displayed in the last step
    file,           \* the events file on disk: whether it exists, its lines
    in_mem_events,  \* EventStore.in_mem_events of the running process
    load_cache,     \* what EventStore.load_cached() has memoized
    loaded,         \* ghost: what the last EventStore.load() call did
    subscribedAt,   \* ghost: events registered before the probe subscribed
    notified,       \* ghost: the events the probe callback was called with
    constructed,    \* ghost: the aggregators were built in the last step
    state_file,     \* the state file on disk
    bak_file,       \* its .bak sidecar
    updated,        \* StateStore._updated
    memo,           \* res and last_updated of each _cache wrapper
    ss,             \* ghost: the last StateStore call and what it returned
    reads,          \* ghost: runs of the body of load() since the last dump
    first,          \* ghost: what each loader returned first since then
    running,        \* the application: "idle", "running" or "exited"
    mounted,        \* ids of the mounted timer components, in display order
    deleted_mem,    \* Pymodoro._deleted
    prev_deleted,   \* the value kept by Pymodoro._prev_deleted_timers
    dumped,         \* ghost: what action_dump_state handed to StateStore.dump
    ctw_active,     \* per timer: CountdownTimer.is_active of its widget
    spent,          \* per timer: its remaining is 0
    ctc_active,     \* per timer: the component has the class "active"
    has_active_timer,   \* Pymodoro.has_active_timer
    to_ctc,         \* per timer: messages of the widget not yet handled by
                    \* its component
    to_app,         \* per timer: messages handled by the component and not
                    \* yet by the app
    current_time_window_id,     \* Pymodoro.current_time_window_id
    current_time_spent_ptr,     \* per container: id of the aggregator shown
    hidden,         \* per container: the aggregators with the class hidden
    clicks,         \* ghost: clicks on a time-spent container so far
    wlog,           \* the events the widget of ct has registered
    completions,    \* ghost: completed events since the last reset
    mono,           \* time.monotonic() in milliseconds, as exec_on_repeat
                    \* reads it
    decorated,      \* num_repeat and window_ms the decorator was applied with
    call_times,     \* the deque call_times of the decorated function
    calls,          \* ghost: every call of the wrapper: its time, whether fn
                    \* was executed
    refresh_paused, \* the widget of ct: _refresh_timer and _refresh_global
                    \* are paused
    inbox,          \* the component of ct: messages emitted to it and not
                    \* yet handled
    ctc_state,      \* its state: total_seconds_completed,
                    \* num_pomodoros_completed
    active_class,   \* it has the class "active"
    elog,           \* the events registered for it, with their elapsed
    snap,           \* the snapshot action_delete_selected_timer recorded for it
    removed,        \* it was removed from the screen
    sub,            \* ghost: the last new total time submitted for it
    seen            \* ghost: the timer ids the state file held at the start
                    \* or that were mounted in this run

timerVars == <<clock, ct, pre, op, ret, restored, openedAt, closedSum>>
aggVars == <<wall, log, agg, shown>>
storeVars == <<file, in_mem_events, load_cache, loaded, subscribedAt, notified,
               constructed>>
stateVars == <<state_file, bak_file, updated, memo, ss, reads, first>>
appVars == <<running, mounted, deleted_mem, prev_deleted, dumped>>
winVars == <<current_time_window_id, current_time_spent_ptr, hidden, clicks>>
widgetVars == <<wlog, completions>>
uiVars == <<ctw_active, spent, ctc_active, has_active_timer, to_ctc, to_app,
            winVars, widgetVars>>
repeatVars == <<mono, decorated, call_times, calls>>
ctwVars == <<refresh_paused>>
ctcVars == <<inbox, ctc_state, active_class, elog, snap, removed, sub>>
extVars == <<repeatVars, ctwVars, ctcVars, seen>>
vars == <<timerVars, aggVars, storeVars, stateVars, appVars, uiVars, extVars>>

----------------------------------------------------------------------------
(* Bounds *)

MaxClock == 8
MaxInitialSeconds == 3
InitialSecondsChoices == 2..MaxInitialSeconds

----------------------------------------------------------------------------
(* Period: widgets/countdown_timer/timer.py *)

Max(a, b) == IF a >= b THEN a ELSE b

\* Period.__init__
PeriodNew == [start |-> 0, end |-> 0]

\* Period.start
PeriodStart(p, now) == [start |-> now, end |-> now]

\* Period.stop: the duration is computed from _start whether or not the
\* Period was opened
PeriodStop(p, now) == [period |-> [start |-> 0, end |-> 0], ret |-> now - p.start]

\* variant: the running check is dropped
PeriodElapsedAlwaysNow(p, now) ==
    [period |-> [p EXCEPT !.end = now], ret |-> now - p.start]

\* Period.elapsed: a read that refreshes _end while the Period is running
PeriodElapsed(p, now) ==
    LET e == IF p.start # 0 THEN now ELSE p.end
    IN [period |-> [p EXCEPT !.end = e], ret |-> e - p.start]

----------------------------------------------------------------------------
(* CountdownTimer: widgets/countdown_timer/timer.py *)

DefaultInitialSeconds == 1500

\* CountdownTimer.__init__
CtNew(initial) ==
    [initial_seconds |-> initial, active |-> FALSE, elapsed |-> 0,
     period |-> PeriodNew]

\* CountdownTimer.total_elapsed (getter)
CtTotalElapsed(t, now) ==
    LET pe == PeriodElapsed(t.period, now)
    IN [ct |-> [t EXCEPT !.period = pe.period], ret |-> t.elapsed + pe.ret]

\* variant: the clamp at zero is dropped
CtRemainingNoClamp(t, now) ==
    LET te == CtTotalElapsed(t, now)
    IN [ct |-> te.ct, ret |-> t.initial_seconds - te.ret]

\* CountdownTimer.remaining
CtRemaining(t, now) ==
    LET te == CtTotalElapsed(t, now)
    IN [ct |-> te.ct, ret |-> Max(0, t.initial_seconds - te.ret)]

\* CountdownTimer.is_active
CtIsActive(t) == t.active

\* variant: the remaining check is dropped
CtStartNoRemainingCheck(t, now) ==
    IF t.active
    THEN [ct |-> t, ret |-> FALSE]
    ELSE [ct |-> [t EXCEPT !.active = TRUE,
                           !.period = PeriodStart(t.period, now)],
          ret |-> TRUE]

\* CountdownTimer.start
CtStart(t, now) ==
    IF t.active
    THEN [ct |-> t, ret |-> FALSE]
    ELSE LET r == CtRemaining(t, now)
         IN IF r.ret = 0
            THEN [ct |-> r.ct, ret |-> FALSE]
            ELSE [ct |-> [r.ct EXCEPT !.active = TRUE,
                                      !.period = PeriodStart(r.ct.period, now)],
                  ret |-> TRUE]

\* variant: the period's time replaces the accumulated time
CtStopOverwrite(t, now) ==
    IF ~t.active
    THEN [ct |-> t, ret |-> 0]
    ELSE LET ps == PeriodStop(t.period, now)
         IN [ct |-> [t EXCEPT !.period = ps.period,
                              !.elapsed = ps.ret,
                              !.active = FALSE],
             ret |-> ps.ret]

\* CountdownTimer.stop
CtStop(t, now) ==
    IF ~t.active
    THEN [ct |-> t, ret |-> 0]
    ELSE LET ps == PeriodStop(t.period, now)
         IN [ct |-> [t EXCEPT !.period = ps.period,
                              !.elapsed = t.elapsed + ps.ret,
                              !.active = FALSE],
             ret |-> ps.ret]

\* CountdownTimer.reset: _active is left as it was
CtReset(t, now) ==
    LET ps == PeriodStop(t.period, now)
    IN [ct |-> [t EXCEPT !.elapsed = 0, !.period = ps.period], ret |-> ps.ret]

\* variant: the accumulated time is dumped without the running period
CtDumpStateAccumulatedOnly(t, now) ==
    [ct |-> t,
     ret |-> [initial_seconds |-> t.initial_seconds,
              total_elapsed |-> t.elapsed]]

\* CountdownTimer.dump_state
CtDumpState(t, now) ==
    LET te == CtTotalElapsed(t, now)
    IN [ct |-> te.ct,
        ret |-> [initial_seconds |-> t.initial_seconds,
                 total_elapsed |-> te.ret]]

\* setattr(res, k, v): total_elapsed goes through the property setter
CtSetAttr(t, k, v) ==
    IF k = "initial_seconds" THEN [t EXCEPT !.initial_seconds = v]
    ELSE IF k = "total_elapsed" THEN [t EXCEPT !.elapsed = v]
    ELSE t

RECURSIVE CtSetAll(_, _, _)
CtSetAll(t, d, keys) ==
    IF keys = {} THEN t
    ELSE LET k == CHOOSE x \in keys : TRUE
         IN CtSetAll(CtSetAttr(t, k, d[k]), d, keys \ {k})

\* CountdownTimer.from_state
CtFromState(d) == CtSetAll(CtNew(DefaultInitialSeconds), d, DOMAIN d)

\* reads without the bookkeeping, for stating properties
TotalElapsed(t, now) == CtTotalElapsed(t, now).ret
Remaining(t, now) == CtRemaining(t, now).ret
PeriodOpen(t) == t.period.start # 0

----------------------------------------------------------------------------
(* Event store and TimeSpentWindowed: pymodoro_state.py,                   *)
(* widgets/countdown_timer/time_spent.py                                   *)

MaxWall == 15
MaxEvents == 2
MaxElapsed == 1
MaxOpenElapsed == 1
TicksPerDay == 2
DaysPerWeek == 7
TicksPerWeek == DaysPerWeek * TicksPerDay

\* pendulum.DateTime.min, earlier than every event
MinTime == -1

Kinds == {"TimeSpentTotal", "TimeSpentWeek", "TimeSpentWorkWeek", "TimeSpentDay"}

\* the component the aggregators belong to, and another one
ComponentId == "ctc_a"
OtherComponentId == "ctc_b"

RelevantNames == {"stopped", "manually_accounted_time"}
EventNames == {"started", "stopped", "completed", "manually_accounted_time"}

\* what a message hands to EventStore.register, before the timestamp:
\* stopped and manually accounted periods of the component, one of its
\* started events (elapsed is 0 where the event carries none) and a stopped
\* event of the other component
EventShapes ==
    {[component_id |-> ComponentId, name |-> "stopped", elapsed |-> e] :
        e \in 1..MaxElapsed}
    \cup {[component_id |-> ComponentId, name |-> "manually_accounted_time",
           elapsed |-> MaxElapsed + 1]}
    \cup {[component_id |-> ComponentId, name |-> "started", elapsed |-> 0]}
    \cup {[component_id |-> OtherComponentId, name |-> "stopped", elapsed |-> 1]}

\* TimeSpentTotal/Week/WorkWeek/Day.window_start; wall 0 is a Monday midnight
WindowStart(k, now) ==
    CASE k = "TimeSpentTotal" -> MinTime
      [] k = "TimeSpentWeek" -> now - TicksPerWeek
      [] k = "TimeSpentWorkWeek" -> (now \div TicksPerWeek) * TicksPerWeek
      [] k = "TimeSpentDay" -> (now \div TicksPerDay) * TicksPerDay

RECURSIVE SumElapsed(_)
SumElapsed(es) ==
    IF es = <<>> THEN 0 ELSE Head(es).elapsed + SumElapsed(Tail(es))

\* takewhile(lambda e: e["at"] <= min_time, events): length of that prefix
RECURSIVE TakeWhileOld(_, _)
TakeWhileOld(es, min_time) ==
    IF es = <<>> \/ ~(Head(es).at <= min_time) THEN 0
    ELSE 1 + TakeWhileOld(Tail(es), min_time)

\* variant: events of every component are taken
IsEventRelevantAnyComponent(k, d, now) ==
    /\ d.name \in RelevantNames
    /\ d.at >= WindowStart(k, now)

\* TimeSpentWindowed._is_event_relevant
IsEventRelevant(k, d, now) ==
    /\ d.component_id = ComponentId
    /\ d.name \in RelevantNames
    /\ d.at >= WindowStart(k, now)

\* variant: an event stamped exactly min_time stays
AggPruneStrict(a, k, now, update_prev_spent) ==
    LET min_time == WindowStart(k, now)
        n == TakeWhileOld(a.events, min_time - 1)
        to_rm == SumElapsed(SubSeq(a.events, 1, n))
    IN [events |-> SubSeq(a.events, n + 1, Len(a.events)),
        prev_spent |-> IF to_rm # 0 /\ update_prev_spent
                       THEN a.prev_spent - to_rm ELSE a.prev_spent]

\* variant: the evicted events stay counted in prev_spent
AggPruneKeepsSum(a, k, now, update_prev_spent) ==
    LET min_time == WindowStart(k, now)
        n == TakeWhileOld(a.events, min_time)
    IN [events |-> SubSeq(a.events, n + 1, Len(a.events)),
        prev_spent |-> a.prev_spent]

\* TimeSpentWindowed._prune
AggPrune(a, k, now, update_prev_spent) ==
    LET min_time == WindowStart(k, now)
        n == TakeWhileOld(a.events, min_time)
        to_rm == SumElapsed(SubSeq(a.events, 1, n))
    IN [events |-> SubSeq(a.events, n + 1, Len(a.events)),
        prev_spent |-> IF to_rm # 0 /\ update_prev_spent
                       THEN a.prev_spent - to_rm ELSE a.prev_spent]

\* TimeSpentWindowed._update: prune, then display
AggUpdate(a, k, now, spent_in_current_period) ==
    LET p == AggPrune(a, k, now, TRUE)
    IN [agg |-> p,
        shown |-> [fresh |-> TRUE, kind |-> k, cur |-> spent_in_current_period,
                   total |-> spent_in_current_period + p.prev_spent]]

\* TimeSpentWindowed.on_new_event; assigning the reactive prev_spent runs
\* watch_prev_spent, that is _update (elapsed > 0, so the value changes),
\* and the open-period baseline is 0 afterwards
AggOnNewEvent(a, k, d, now) ==
    IF ~IsEventRelevant(k, d, now)
    THEN a
    ELSE AggUpdate([events |-> Append(a.events, d),
                    prev_spent |-> a.prev_spent + d.elapsed], k, now, 0).agg

\* the store's fan-out: every subscribed aggregator gets the event in
\* on_new_event
Deliver(aggs, d, now) == [k \in Kinds |-> AggOnNewEvent(aggs[k], k, d, now)]

----------------------------------------------------------------------------
(* EventStore: pymodoro_state.py.  In memory an event carries its instant; *)
(* in the file it is one line of JSON with the instant as ISO text.        *)

MaxTorn == 1

\* str(self.at) and pendulum.parse
Str(t) == <<"iso", t>>
PendulumParse(text) == text[2]

\* json.dumps(d): one line of the events file
JsonDumps(d) ==
    [json |-> TRUE, component_id |-> d.component_id, name |-> d.name,
     at |-> Str(d.at), elapsed |-> d.elapsed]

\* what a write cut short leaves behind: a line json.loads rejects
TornLine ==
    [json |-> FALSE, component_id |-> "", name |-> "", at |-> Str(0),
     elapsed |-> 0]

\* EventStore._parse
ParseLine(l) ==
    [component_id |-> l.component_id, name |-> l.name,
     at |-> PendulumParse(l.at), elapsed |-> l.elapsed]

NoFile == [exists |-> FALSE, lines |-> <<>>]
EmptyFile == [exists |-> TRUE, lines |-> <<>>]

\* variant: the file is opened with "w"
FileOverwrite(f, line) == [exists |-> TRUE, lines |-> <<line>>]

\* open(cls.store, "a") and write of one line; creates the file
FileAppend(f, line) == [exists |-> TRUE, lines |-> Append(f.lines, line)]

\* EventStore.load: open() raises on a missing file, json.loads on a bad
\* line, and either ends the whole call
EventStoreLoad(f) ==
    IF ~f.exists
    THEN [fresh |-> TRUE, raised |-> "FileNotFoundError", events |-> <<>>]
    ELSE IF \E i \in 1..Len(f.lines) : ~f.lines[i].json
    THEN [fresh |-> TRUE, raised |-> "JSONDecodeError", events |-> <<>>]
    ELSE [fresh |-> TRUE, raised |-> "",
          events |-> [i \in 1..Len(f.lines) |-> ParseLine(f.lines[i])]]

NotLoaded == [fresh |-> FALSE, raised |-> "", events |-> <<>>]

\* variant: the callback is handed only the first event after subscribing
NotifyOnce(at, got, d) == IF at >= 0 /\ got = <<>> THEN <<d>> ELSE got

\* the fan-out of register to a callback given to EventStore.subscribe
Notify(at, got, d) == IF at >= 0 THEN Append(got, d) ELSE got

NotConstructed == FALSE

StoreInit ==
    /\ file = EmptyFile
    /\ in_mem_events = <<>>
    /\ load_cache = <<>>
    /\ loaded = NotLoaded
    /\ subscribedAt = -1
    /\ notified = <<>>
    /\ constructed = NotConstructed

\* EventStore.load_cached on its first call in a process: load(), kept
LoadCached(f) == EventStoreLoad(f).events

\* variant: the events of this process are chained before the cached ones
AggInitEventsInMemFirst(k, cached, in_mem, now) ==
    SelectSeq(in_mem \o cached, LAMBDA d : IsEventRelevant(k, d, now))

\* TimeSpentWindowed._init_events
AggInitEvents(k, cached, in_mem, now) ==
    SelectSeq(cached \o in_mem, LAMBDA d : IsEventRelevant(k, d, now))

\* TimeSpentWindowed.__init__; the watcher run by the assignment of
\* prev_spent prunes again at the same instant and finds nothing
AggConstruct(k, cached, in_mem, now) ==
    LET events == AggInitEvents(k, cached, in_mem, now)
        p == AggPrune([events |-> events, prev_spent |-> 0], k, now, FALSE)
    IN [events |-> p.events, prev_spent |-> SumElapsed(p.events)]

----------------------------------------------------------------------------
(* StateStore: pymodoro_state.py.  A snapshot is a CountdownTimerState,    *)
(* of which the id and the status are kept; the state file holds the JSON  *)
(* text of a list of dicts, or text json.load rejects.                     *)

MaxDumps == 2

TimerIds == {"ctc_a", "ctc_b"}
Statuses == {"in_progress", "deleted"}
Snapshots == [id : TimerIds, status : Statuses]

\* the lists of snapshots the application dumps: one per timer at most
StateLists ==
    {<<>>}
    \cup {<<x>> : x \in Snapshots}
    \cup {p \in Snapshots \X Snapshots : p[1].id # p[2].id}

\* dataclasses.asdict and CountdownTimerState(**v)
AsDict(x) == [dict |-> TRUE, id |-> x.id, status |-> x.status]
FromDict(v) == [id |-> v.id, status |-> v.status]

\* a file on disk: absent, or text that is the JSON of a list of dicts,
\* or text that is not JSON
Absent == [exists |-> FALSE, json |-> FALSE, dicts |-> <<>>]
Garbage == [exists |-> TRUE, json |-> FALSE, dicts |-> <<>>]
JsonDump(dicts) == [exists |-> TRUE, json |-> TRUE, dicts |-> dicts]

NoneResult == [none |-> TRUE, states |-> <<>>]
ListResult(xs) == [none |-> FALSE, states |-> xs]

\* variant: a missing or unreadable file gives the empty list
StateStoreLoadBodyEmptyList(f) ==
    IF f.exists /\ f.json
    THEN ListResult([i \in 1..Len(f.dicts) |-> FromDict(f.dicts[i])])
    ELSE ListResult(<<>>)

\* the body of StateStore.load: suppress(Exception) turns a missing file
\* and a parse error into None
StateStoreLoadBody(f) ==
    IF f.exists /\ f.json
    THEN ListResult([i \in 1..Len(f.dicts) |-> FromDict(f.dicts[i])])
    ELSE NoneResult

\* variant: the wrapper never looks at _updated again once it holds a value
CacheKeepsFirst(m, gen, computed) ==
    IF m.last_updated # -1 THEN m
    ELSE [last_updated |-> gen, res |-> computed]

\* variant: the wrapper runs the function on every call
CacheNever(m, gen, computed) == [last_updated |-> gen, res |-> computed]

\* the _cache wrapper: the memo after a call, whose res is returned;
\* last_updated -1 is None
Cache(m, gen, computed) ==
    IF m.last_updated = gen THEN m
    ELSE [last_updated |-> gen, res |-> computed]

NoMemo == [last_updated |-> -1, res |-> NoneResult]
NoCall == [op |-> "", arg |-> <<>>, raised |-> "", ret |-> NoneResult,
           before |-> Absent, again |-> FALSE, all |-> NoneResult]

\* whether the wrapper runs the function: it does when what it keeps
\* afterwards is what the function computed
Probe == ListResult(<<[id |-> "", status |-> ""]>>)
Runs(m, gen) == Cache(m, gen, Probe).res = Probe

Loaders == {"load", "load_current", "load_deleted"}

\* StateStore.load() through its wrapper: the memos afterwards
StoreLoad(m, gen, f) ==
    [m EXCEPT !["load"] = Cache(m["load"], gen, StateStoreLoadBody(f))]

\* the bodies of load_current and load_deleted on what load() returned:
\* None for None and for the empty list, else the snapshots of that status
FilterStatus(res, deleted) ==
    IF res.none \/ res.states = <<>> THEN NoneResult
    ELSE ListResult(SelectSeq(res.states,
                              LAMBDA x : (x.status = "deleted") <=> deleted))

\* StateStore.load_current() and load_deleted() through their wrappers;
\* a miss calls load(), itself wrapped
StoreLoadView(m, gen, f, fn) ==
    LET m1 == IF Runs(m[fn], gen) THEN StoreLoad(m, gen, f) ELSE m
    IN [m1 EXCEPT ![fn] =
           Cache(m[fn], gen,
                 FilterStatus(m1["load"].res, fn = "load_deleted"))]

\* whether a call of fn reads and parses the state file
ReadsFile(m, gen, fn) ==
    /\ fn = "load" \/ Runs(m[fn], gen)
    /\ Runs(m["load"], gen)

StoreCall(m, gen, f, fn) ==
    IF fn = "load" THEN StoreLoad(m, gen, f) ELSE StoreLoadView(m, gen, f, fn)

NotCalled == [called |-> FALSE, ret |-> NoneResult]

\* Pymodoro before compose: nothing mounted, _prev_deleted_timers not
\* evaluated yet
NoPrev == [cached |-> FALSE, gen |-> -1, res |-> NoneResult]
NoDump == [done |-> FALSE, raised |-> "", active |-> <<>>, states |-> <<>>]

Range(q) == {q[i] : i \in 1..Len(q)}

\* TimeSpentContainer.create: the aggregators in the order they are
\* registered; the container shows the one the app names and hides the rest
KindOrder == <<"TimeSpentTotal", "TimeSpentWeek", "TimeSpentWorkWeek",
               "TimeSpentDay">>

\* variant: the deque is not rotated
TimeSpentToNextMapNoRotate(keys) == [i \in 1..Len(keys) |-> keys[i]]

\* _init_time_spent_to_next_map: d = deque(keys); d.rotate(-1);
\* dict(zip(keys, d)), here as the sequence of the values in key order
TimeSpentToNextMap(keys) ==
    [i \in 1..Len(keys) |-> keys[(i % Len(keys)) + 1]]

IndexOf(keys, k) == CHOOSE i \in 1..Len(keys) : keys[i] = k
NextWindow(k) == TimeSpentToNextMap(KindOrder)[IndexOf(KindOrder, k)]

\* watch_current_time_spent_ptr: every aggregator but the shown one gets
\* the class hidden
HiddenFor(k) == Range(KindOrder) \ {k}

WinInit ==
    /\ current_time_window_id = KindOrder[1]
    /\ current_time_spent_ptr = [c \in TimerIds |-> KindOrder[1]]
    /\ hidden = [c \in TimerIds |-> HiddenFor(KindOrder[1])]
    /\ clicks = 0

\* no function is decorated with exec_on_repeat yet
NotDecorated == [num_repeat |-> 0, window_ms |-> 0]

RepeatInit ==
    /\ mono = 0
    /\ decorated = NotDecorated
    /\ call_times = <<>>
    /\ calls = <<>>

\* CountdownTimerWidget.on_mount: both intervals are made with pause=True
CtwInit == refresh_paused = TRUE

NoSnap == [taken |-> FALSE, was_active |-> FALSE, ran |-> FALSE, due |-> 0]
NoSub == [total_seconds |-> 0, was |-> "none", stops |-> 0]

\* CountdownTimerState.new_default, the component not active, nothing
\* emitted yet
CtcInit ==
    /\ inbox = <<>>
    /\ ctc_state = [total_seconds_completed |-> 0,
                    num_pomodoros_completed |-> 0]
    /\ active_class = FALSE
    /\ elog = <<>>
    /\ snap = NoSnap
    /\ removed = FALSE
    /\ sub = NoSub

ExtInit ==
    /\ RepeatInit
    /\ CtwInit
    /\ CtcInit
    /\ seen = {}

\* the timers before anything is started
UiInit ==
    /\ WinInit
    /\ ExtInit
    /\ wlog = <<>>
    /\ completions = 0
    /\ ctw_active = [t \in TimerIds |-> FALSE]
    /\ spent = [t \in TimerIds |-> FALSE]
    /\ ctc_active = [t \in TimerIds |-> FALSE]
    /\ has_active_timer = FALSE
    /\ to_ctc = [t \in TimerIds |-> <<>>]
    /\ to_app = [t \in TimerIds |-> <<>>]

AppInit ==
    /\ UiInit
    /\ running = "idle"
    /\ mounted = <<>>
    /\ deleted_mem = <<>>
    /\ prev_deleted = NoPrev
    /\ dumped = NoDump

StateInit ==
    /\ state_file = Absent
    /\ bak_file = Absent
    /\ updated = 0
    /\ memo = [fn \in Loaders |-> NoMemo]
    /\ ss = NoCall
    /\ reads = 0
    /\ first = [fn \in Loaders |-> NotCalled]

NotShown == [fresh |-> FALSE, kind |-> "", cur |-> 0, total |-> 0]

\* the aggregators are built over an empty event store
AggInit ==
    /\ wall = 0
    /\ log = <<>>
    /\ agg = [k \in Kinds |-> [events |-> <<>>, prev_spent |-> 0]]
    /\ shown = NotShown

\* wall time passes; what was displayed is no longer current
WallTick ==
    /\ wall < MaxWall
    /\ wall' = wall + 1
    /\ shown' = NotShown
    /\ constructed' = NotConstructed
    /\ UNCHANGED <<log, agg>>
    /\ UNCHANGED <<file, in_mem_events, load_cache, loaded, subscribedAt,
                   notified>>
    /\ UNCHANGED <<timerVars, stateVars, appVars, uiVars, extVars>>

\* EventStore.register of an event stamped now, delivered to every
\* subscribed aggregator
Register ==
    /\ Len(log) < MaxEvents
    /\ \E sh \in EventShapes :
        LET d == [component_id |-> sh.component_id, name |-> sh.name,
                  at |-> wall, elapsed |-> sh.elapsed]
        IN /\ log' = Append(log, d)
           /\ file' = FileAppend(file, JsonDumps(d))
           /\ in_mem_events' = Append(in_mem_events, d)
           /\ agg' = Deliver(agg, d, wall)
           /\ shown' = NotShown
    /\ constructed' = NotConstructed
    /\ UNCHANGED <<wall, load_cache, loaded, subscribedAt, notified>>
    /\ UNCHANGED <<timerVars, stateVars, appVars, uiVars, extVars>>

\* watch_spent_in_current_period: one aggregator refreshes its display
Refresh ==
    /\ \E k \in Kinds, cur \in 0..MaxOpenElapsed :
        LET u == AggUpdate(agg[k], k, wall, cur)
        IN /\ agg' = [agg EXCEPT ![k] = u.agg]
           /\ shown' = u.shown
    /\ UNCHANGED <<wall, log>>
    /\ constructed' = NotConstructed
    /\ UNCHANGED <<file, in_mem_events, load_cache, loaded, subscribedAt,
                   notified>>
    /\ UNCHANGED <<timerVars, stateVars, appVars, uiVars, extVars>>

\* the once-a-minute set_interval(60, self._prune) of one aggregator
PruneRegularly ==
    /\ \E k \in Kinds :
        /\ agg' = [agg EXCEPT ![k] = AggPrune(agg[k], k, wall, TRUE)]
        /\ shown' = NotShown
    /\ UNCHANGED <<wall, log>>
    /\ constructed' = NotConstructed
    /\ UNCHANGED <<file, in_mem_events, load_cache, loaded, subscribedAt,
                   notified>>
    /\ UNCHANGED <<timerVars, stateVars, appVars, uiVars, extVars>>

\* TimeSpentContainer.create when a component is built again from its
\* saved state in a running process: four new aggregators
Construct ==
    /\ agg' = [k \in Kinds |->
                 AggConstruct(k, load_cache, in_mem_events, wall)]
    /\ constructed' = TRUE
    /\ shown' = NotShown
    /\ UNCHANGED <<wall, log>>
    /\ UNCHANGED <<file, in_mem_events, load_cache, loaded, subscribedAt,
                   notified>>
    /\ UNCHANGED <<timerVars, stateVars, appVars, uiVars, extVars>>

\* the process ends and the next one starts: nothing in memory, the file
\* read once, the component and its aggregators built from it
NewSession ==
    /\ in_mem_events # <<>>
    /\ in_mem_events' = <<>>
    /\ load_cache' = LoadCached(file)
    /\ agg' = [k \in Kinds |-> AggConstruct(k, LoadCached(file), <<>>, wall)]
    /\ constructed' = TRUE
    /\ shown' = NotShown
    /\ UNCHANGED <<wall, log>>
    /\ UNCHANGED <<file, loaded, subscribedAt, notified>>
    /\ UNCHANGED <<timerVars, stateVars, appVars, uiVars, extVars>>

NextAgg ==
    \/ WallTick
    \/ Register
    \/ Refresh
    \/ PruneRegularly

\* brute force: the elapsed of every logged event of the component with a
\* relevant name and a timestamp in [window_start(now), now)
RECURSIVE WindowSum(_, _, _)
WindowSum(k, es, now) ==
    IF es = <<>> THEN 0
    ELSE (IF /\ Head(es).component_id = ComponentId
             /\ Head(es).name \in RelevantNames
             /\ Head(es).at >= WindowStart(k, now)
             /\ Head(es).at < now
          THEN Head(es).elapsed ELSE 0) + WindowSum(k, Tail(es), now)

----------------------------------------------------------------------------
(* The timer driven through its public interface *)

TimerInit ==
    /\ clock = 1
    /\ \E i \in InitialSecondsChoices : ct = CtNew(i)
    /\ pre = ct
    /\ op = "init"
    /\ ret = 0
    /\ restored = CtNew(DefaultInitialSeconds)
    /\ openedAt = 0
    /\ closedSum = 0

Init == TimerInit /\ AggInit /\ StoreInit /\ StateInit /\ AppInit

\* the aggregators next to one idle timer
InitAgg == Init /\ ct = CtNew(MaxInitialSeconds)

\* time passes
Tick ==
    /\ clock < MaxClock
    /\ clock' = clock + 1
    /\ op' = "tick"
    /\ pre' = ct
    /\ UNCHANGED <<ct, ret, restored, openedAt, closedSum>>
    /\ UNCHANGED <<aggVars, storeVars, stateVars, appVars, uiVars, extVars>>

Start ==
    LET r == CtStart(ct, clock)
    IN /\ ct' = r.ct
       /\ ret' = r.ret
       /\ pre' = ct
       /\ op' = "start"
       /\ openedAt' = IF r.ret THEN clock ELSE openedAt
       /\ UNCHANGED <<clock, restored, closedSum>>
       /\ UNCHANGED <<aggVars, storeVars, stateVars, appVars, uiVars, extVars>>

Stop ==
    LET r == CtStop(ct, clock)
    IN /\ ct' = r.ct
       /\ ret' = r.ret
       /\ pre' = ct
       /\ op' = "stop"
       /\ closedSum' = IF CtIsActive(ct) THEN closedSum + (clock - openedAt)
                       ELSE closedSum
       /\ UNCHANGED <<clock, restored, openedAt>>
       /\ UNCHANGED <<aggVars, storeVars, stateVars, appVars, uiVars, extVars>>

Reset ==
    LET r == CtReset(ct, clock)
    IN /\ ct' = r.ct
       /\ ret' = r.ret
       /\ pre' = ct
       /\ op' = "reset"
       /\ closedSum' = 0
       /\ UNCHANGED <<clock, restored, openedAt>>
       /\ UNCHANGED <<aggVars, storeVars, stateVars, appVars, uiVars, extVars>>

\* a read of `remaining` (which reads total_elapsed and Period.elapsed)
ReadRemaining ==
    LET r == CtRemaining(ct, clock)
    IN /\ ct' = r.ct
       /\ ret' = r.ret
       /\ pre' = ct
       /\ op' = "remaining"
       /\ UNCHANGED <<clock, restored, openedAt, closedSum>>
       /\ UNCHANGED <<aggVars, storeVars, stateVars, appVars, uiVars, extVars>>

\* a read of `total_elapsed`
ReadTotalElapsed ==
    LET r == CtTotalElapsed(ct, clock)
    IN /\ ct' = r.ct
       /\ ret' = r.ret
       /\ pre' = ct
       /\ op' = "total_elapsed"
       /\ UNCHANGED <<clock, restored, openedAt, closedSum>>
       /\ UNCHANGED <<aggVars, storeVars, stateVars, appVars, uiVars, extVars>>

\* from_state(dump_state(ct))
DumpRestore ==
    LET d == CtDumpState(ct, clock)
    IN /\ ct' = d.ct
       /\ ret' = d.ret
       /\ restored' = CtFromState(d.ret)
       /\ pre' = ct
       /\ op' = "dump"
       /\ UNCHANGED <<clock, openedAt, closedSum>>
       /\ UNCHANGED <<aggVars, storeVars, stateVars, appVars, uiVars, extVars>>

Next ==
    \/ Tick
    \/ Start
    \/ Stop
    \/ Reset
    \/ ReadRemaining
    \/ ReadTotalElapsed
    \/ DumpRestore

Spec == Init /\ [][Next]_vars

\* the same timer driven by start/stop and reads only
NextStartStop ==
    \/ Tick
    \/ Start
    \/ Stop
    \/ ReadRemaining
    \/ ReadTotalElapsed

SpecStartStop == Init /\ [][NextStartStop]_vars

\* a timer of ten seconds, started and stopped at any times
MaxScenarioClock == 12

InitScenario ==
    /\ clock = 1
    /\ ct = CtNew(10)
    /\ pre = ct
    /\ op = "init"
    /\ ret = 0
    /\ restored = CtNew(DefaultInitialSeconds)
    /\ openedAt = 0
    /\ closedSum = 0
    /\ AggInit /\ StoreInit /\ StateInit /\ AppInit

\* time passes, for longer
ScenarioTick ==
    /\ clock < MaxScenarioClock
    /\ clock' = clock + 1
    /\ op' = "tick"
    /\ pre' = ct
    /\ UNCHANGED <<ct, ret, restored, openedAt, closedSum>>
    /\ UNCHANGED <<aggVars, storeVars, stateVars, appVars, uiVars, extVars>>

NextScenario ==
    \/ ScenarioTick
    \/ Start
    \/ Stop
    \/ ReadRemaining
    \/ ReadTotalElapsed

SpecScenario == InitScenario /\ [][NextScenario]_vars

\* the aggregators fed by the event store
SpecAgg == InitAgg /\ [][NextAgg]_vars

\* the aggregators over several processes: events registered, the process
\* restarted, the component built again, the queues pruned
NextBuild ==
    \/ WallTick
    \/ Register
    \/ PruneRegularly
    \/ Construct
    \/ NewSession

SpecBuild == InitAgg /\ [][NextBuild]_vars

----------------------------------------------------------------------------
(* The event store on its own: a process that registers events, a callback *)
(* subscribed to it, and readers of the file (the application at start-up, *)
(* stats/time_spent.py).  The file may be absent at first, and a write cut *)
(* short ends the process and leaves a torn line behind.                   *)

InitStore ==
    /\ TimerInit /\ ct = CtNew(MaxInitialSeconds)
    /\ AggInit
    /\ file \in {NoFile, EmptyFile}
    /\ in_mem_events = <<>>
    /\ load_cache = <<>>
    /\ loaded = NotLoaded
    /\ subscribedAt = -1
    /\ notified = <<>>
    /\ constructed = NotConstructed
    /\ StateInit
    /\ AppInit

\* EventStore.register(d), d stamped by the caller with pendulum.now()
StoreRegister ==
    /\ Len(log) < MaxEvents
    /\ \E shape \in EventShapes :
         LET d == [component_id |-> shape.component_id, name |-> shape.name,
                   at |-> wall, elapsed |-> shape.elapsed]
         IN
           /\ log' = Append(log, d)
           /\ in_mem_events' = Append(in_mem_events, d)
           /\ file' = FileAppend(file, JsonDumps(d))
           /\ notified' = Notify(subscribedAt, notified, d)
    /\ loaded' = NotLoaded
    /\ shown' = NotShown
    /\ UNCHANGED <<wall, agg, load_cache, subscribedAt, constructed>>
    /\ UNCHANGED <<timerVars, stateVars, appVars, uiVars, extVars>>

\* EventStore.subscribe(callback), once
Subscribe ==
    /\ subscribedAt = -1
    /\ subscribedAt' = Len(log)
    /\ loaded' = NotLoaded
    /\ UNCHANGED <<file, in_mem_events, load_cache, notified, constructed>>
    /\ UNCHANGED <<timerVars, aggVars, stateVars, appVars, uiVars, extVars>>

\* EventStore.load()
Load ==
    /\ loaded' = EventStoreLoad(file)
    /\ UNCHANGED <<file, in_mem_events, load_cache, subscribedAt, notified,
                   constructed>>
    /\ UNCHANGED <<timerVars, aggVars, stateVars, appVars, uiVars, extVars>>

TornCount == Cardinality({i \in 1..Len(file.lines) : ~file.lines[i].json})

\* the process dies inside f.write; the next process starts with nothing
\* in memory and no callback
TornWrite ==
    /\ TornCount < MaxTorn
    /\ file' = FileAppend(file, TornLine)
    /\ in_mem_events' = <<>>
    /\ subscribedAt' = -1
    /\ notified' = <<>>
    /\ loaded' = NotLoaded
    /\ UNCHANGED <<load_cache, constructed>>
    /\ UNCHANGED <<timerVars, aggVars, stateVars, appVars, uiVars, extVars>>

MaxStoreWall == 3

NextStore ==
    \/ (wall < MaxStoreWall /\ WallTick)
    \/ StoreRegister
    \/ Subscribe
    \/ Load
    \/ TornWrite

SpecStore == InitStore /\ [][NextStore]_vars

----------------------------------------------------------------------------
(* The state store on its own: dumps and loads in one process, over a      *)
(* state file that is absent, unreadable or holds an earlier dump.         *)

InitState ==
    /\ TimerInit /\ ct = CtNew(MaxInitialSeconds)
    /\ AggInit
    /\ StoreInit
    /\ state_file \in {Absent, Garbage}
                      \cup {JsonDump(<<AsDict(x)>>) : x \in Snapshots}
    /\ bak_file = Absent
    /\ updated = 0
    /\ memo = [fn \in Loaders |-> NoMemo]
    /\ ss = NoCall
    /\ reads = 0
    /\ first = [fn \in Loaders |-> NotCalled]
    /\ AppInit

\* variant: the old contents are not copied to the .bak
DumpWithoutCopy ==
    /\ updated < MaxDumps
    /\ updated' = updated + 1
    /\ \E states \in StateLists :
        LET dicts == [i \in 1..Len(states) |-> AsDict(states[i])]
        IN /\ state_file' = JsonDump(dicts)
           /\ ss' = [op |-> "dump", arg |-> states, raised |-> "",
                     ret |-> NoneResult, before |-> state_file,
                     again |-> FALSE, all |-> NoneResult]
    /\ reads' = 0
    /\ first' = [fn \in Loaders |-> NotCalled]
    /\ UNCHANGED <<bak_file, memo>>
    /\ UNCHANGED <<timerVars, aggVars, storeVars, appVars, uiVars, extVars>>

\* StateStore.dump(states): open(store, "r") raises when the state file is
\* absent, after _updated was increased and before anything is written
Dump ==
    /\ updated < MaxDumps
    /\ updated' = updated + 1
    /\ \E states \in StateLists :
        LET dicts == [i \in 1..Len(states) |-> AsDict(states[i])]
        IN IF ~state_file.exists
           THEN /\ ss' = [op |-> "dump", arg |-> states,
                          raised |-> "FileNotFoundError", ret |-> NoneResult,
                          before |-> state_file, again |-> FALSE,
                          all |-> NoneResult]
                /\ UNCHANGED <<state_file, bak_file>>
           ELSE /\ bak_file' = state_file
                /\ state_file' = JsonDump(dicts)
                /\ ss' = [op |-> "dump", arg |-> states, raised |-> "",
                          ret |-> NoneResult, before |-> state_file, again |-> FALSE,
                          all |-> NoneResult]
    /\ reads' = 0
    /\ first' = [fn \in Loaders |-> NotCalled]
    /\ UNCHANGED memo
    /\ UNCHANGED <<timerVars, aggVars, storeVars, appVars, uiVars, extVars>>

\* StateStore.dump(states) over an existing state file, ended by an error
\* part-way: inside out.write while the copy is made (the .bak, opened
\* with "w", holds a part of it), or inside json.dump while the new file
\* is written (the state file, opened with "w", holds a part of it)
DumpCutShort ==
    /\ updated < MaxDumps
    /\ state_file.exists
    /\ updated' = updated + 1
    /\ \E states \in StateLists, at \in {"copy", "write"} :
        /\ IF at = "copy"
           THEN bak_file' = Garbage /\ UNCHANGED state_file
           ELSE bak_file' = state_file /\ state_file' = Garbage
        /\ ss' = [op |-> "dump_cut_" \o at, arg |-> states,
                  raised |-> "OSError", ret |-> NoneResult,
                  before |-> state_file, again |-> FALSE,
                          all |-> NoneResult]
    /\ reads' = 0
    /\ first' = [fn \in Loaders |-> NotCalled]
    /\ UNCHANGED memo
    /\ UNCHANGED <<timerVars, aggVars, storeVars, appVars, uiVars, extVars>>

\* one of load(), load_current(), load_deleted() is called
CallLoader(fn) ==
    /\ memo' = StoreCall(memo, updated, state_file, fn)
    /\ reads' = IF ReadsFile(memo, updated, fn) THEN reads + 1 ELSE reads
    /\ first' = IF first[fn].called THEN first
                ELSE [first EXCEPT ![fn] =
                         [called |-> TRUE, ret |-> memo'[fn].res]]
    /\ ss' = [op |-> IF fn = "load" /\ ss.op = "dump"
                     THEN "dump_load" ELSE fn,
              arg |-> IF fn = "load" /\ ss.op = "dump" THEN ss.arg ELSE <<>>,
              raised |-> "",
              ret |-> memo'[fn].res,
              before |-> Absent,
              again |-> first[fn].called,
              all |-> memo'["load"].res]
    /\ UNCHANGED <<state_file, bak_file, updated>>
    /\ UNCHANGED <<timerVars, aggVars, storeVars, appVars, uiVars, extVars>>

\* StateStore.load(); the ghost keeps the argument of a dump that came
\* right before
LoadState ==
    /\ CallLoader("load")

\* StateStore.load_current()
LoadCurrent ==
    /\ CallLoader("load_current")

\* StateStore.load_deleted()
LoadDeleted ==
    /\ CallLoader("load_deleted")

NextState ==
    \/ Dump
    \/ DumpCutShort
    \/ LoadState
    \/ LoadCurrent
    \/ LoadDeleted

SpecState == InitState /\ [][NextState]_vars

-----------------------------------------------------------------------------
(* Pymodoro: pymodoro.py, one run of the application over the state store *)

\* the ids CountdownTimerComponent.new_id gives the timers compose creates
\* when there is nothing to restore
NewIds == <<"new_1", "new_2", "new_3", "new_4">>
AllIds == TimerIds \cup Range(NewIds)

RemoveAt(q, i) == SubSeq(q, 1, i - 1) \o SubSeq(q, i + 1, Len(q))
InsertAt(q, i, x) == SubSeq(q, 1, i - 1) \o <<x>> \o SubSeq(q, i, Len(q))

\* {state.id: state for state in chain}: a dict keeps the place of the
\* first entry of a key and the value of the last
ById(chain) ==
    LET n == Len(chain)
        isFirst(i) == \A j \in 1..(i - 1) : chain[j].id # chain[i].id
        last(i) == CHOOSE j \in 1..n :
                       /\ chain[j].id = chain[i].id
                       /\ \A k \in (j + 1)..n : chain[k].id # chain[i].id
        idx == SelectSeq([i \in 1..n |-> i], isFirst)
    IN [k \in 1..Len(idx) |-> chain[last(idx[k])]]

\* ctc.dump_state() of every mounted component: a new snapshot with the
\* status of the component's state, which from_state and new_default set
ActiveStates(ids) ==
    [i \in 1..Len(ids) |-> [id |-> ids[i], status |-> "in_progress"]]

\* the list action_dump_state hands to StateStore.dump
DumpStateList(ids, persisted, inMemory) ==
    ById(ActiveStates(ids)
         \o (IF persisted.none THEN <<>> ELSE persisted.states)
         \o inMemory
         \o ActiveStates(ids))

\* state.status = "in_progress" on a snapshot object load() made in
\* generation gen: load(), load_current() and load_deleted() keep and
\* return the same objects, so every kept list of that generation shows it
SetInProgress(res, id) ==
    IF res.none THEN res
    ELSE ListResult([k \in 1..Len(res.states) |->
                        IF res.states[k].id = id
                        THEN [res.states[k] EXCEPT !.status = "in_progress"]
                        ELSE res.states[k]])

Mutate(m, gen, id) ==
    [fn \in Loaders |->
        IF m[fn].last_updated = gen
        THEN [m[fn] EXCEPT !.res = SetInProgress(m[fn].res, id)]
        ELSE m[fn]]

\* the ghosts of a loader call made from inside a handler
CallGhosts(m1, fn) ==
    /\ reads' = IF ReadsFile(memo, updated, fn) THEN reads + 1 ELSE reads
    /\ first' = IF first[fn].called THEN first
                ELSE [first EXCEPT ![fn] =
                         [called |-> TRUE, ret |-> m1[fn].res]]
    /\ ss' = [op |-> fn, arg |-> <<>>, raised |-> "", ret |-> m1[fn].res,
              before |-> Absent, again |-> first[fn].called,
              all |-> m1["load"].res]

InitApp ==
    /\ TimerInit /\ ct = CtNew(MaxInitialSeconds)
    /\ AggInit
    /\ StoreInit
    /\ state_file \in {Absent, Garbage}
           \cup {JsonDump([i \in 1..Len(l) |-> AsDict(l[i])]) : l \in StateLists}
    /\ bak_file = Absent
    /\ updated = 0
    /\ memo = [fn \in Loaders |-> NoMemo]
    /\ ss = NoCall
    /\ reads = 0
    /\ first = [fn \in Loaders |-> NotCalled]
    /\ AppInit

\* Pymodoro.compose: the timers of load_current(), or four new ones when
\* it returns None or an empty list; from_state sets the status of each
\* restored snapshot to in_progress
Compose ==
    /\ running = "idle"
    /\ LET m1 == StoreCall(memo, updated, state_file, "load_current")
           cur == m1["load_current"].res
           ids == [i \in 1..Len(cur.states) |-> cur.states[i].id]
           restored_ids == IF cur.none \/ cur.states = <<>> THEN <<>> ELSE ids
           m2 == IF restored_ids = <<>> THEN m1
                 ELSE [fn \in Loaders |->
                         IF m1[fn].last_updated = updated /\ ~m1[fn].res.none
                         THEN [m1[fn] EXCEPT !.res.states =
                                 [k \in 1..Len(m1[fn].res.states) |->
                                    IF m1[fn].res.states[k].id \in Range(ids)
                                    THEN [m1[fn].res.states[k]
                                             EXCEPT !.status = "in_progress"]
                                    ELSE m1[fn].res.states[k]]]
                         ELSE m1[fn]]
       IN /\ memo' = m2
          /\ CallGhosts(m1, "load_current")
          /\ mounted' = IF restored_ids = <<>> THEN NewIds ELSE restored_ids
    /\ running' = "running"
    /\ UNCHANGED <<deleted_mem, prev_deleted, dumped>>
    /\ UNCHANGED <<state_file, bak_file, updated>>
    /\ seen' = seen \cup Range(mounted')
                  \cup {FromDict(state_file.dicts[k]).id :
                            k \in 1..Len(state_file.dicts)}
    /\ UNCHANGED <<timerVars, aggVars, storeVars, uiVars, repeatVars, ctwVars,
                   ctcVars>>

\* on_text_input_value_after_blur: the description typed into the focused
\* timer i is that of timer t; _find_matching_timer looks for t among the
\* other mounted timers, then in _deleted, then in _prev_deleted_timers,
\* and gives nothing when t's id is mounted; the found snapshot is set to
\* in_progress and takes the place of timer i
BlurRestore ==
    /\ running = "running"
    /\ \E i \in 1..Len(mounted), t \in AllIds :
        LET others == {j \in 1..Len(mounted) : j # i /\ mounted[j] = t}
            inMem == {k \in 1..Len(deleted_mem) : deleted_mem[k].id = t}
        IN IF others # {}
           THEN LET j == CHOOSE j \in others : TRUE
                    put == [mounted EXCEPT ![i] = t]
                IN /\ mounted' = RemoveAt(put, j)
                   /\ UNCHANGED <<deleted_mem, prev_deleted, memo, reads,
                                  first, ss>>
           ELSE IF inMem # {}
           THEN LET k == CHOOSE k \in inMem : \A k2 \in inMem : k <= k2
                IN /\ deleted_mem' = RemoveAt(deleted_mem, k)
                   /\ mounted' = IF t \in Range(mounted) THEN mounted
                                 ELSE [mounted EXCEPT ![i] = t]
                   /\ UNCHANGED <<prev_deleted, memo, reads, first, ss>>
           ELSE LET m1 == IF prev_deleted.cached THEN memo
                          ELSE StoreCall(memo, updated, state_file,
                                         "load_deleted")
                    prev == IF prev_deleted.cached THEN prev_deleted
                            ELSE [cached |-> TRUE, gen |-> updated,
                                  res |-> m1["load_deleted"].res]
                    found == /\ ~prev.res.none
                             /\ \E k \in 1..Len(prev.res.states) :
                                    prev.res.states[k].id = t
                             /\ t \notin Range(mounted)
                IN /\ IF prev_deleted.cached
                      THEN UNCHANGED <<reads, first, ss>>
                      ELSE CallGhosts(m1, "load_deleted")
                   /\ memo' = IF found THEN Mutate(m1, prev.gen, t) ELSE m1
                   /\ prev_deleted' =
                        IF found
                        THEN [prev EXCEPT !.res = SetInProgress(prev.res, t)]
                        ELSE prev
                   /\ mounted' = IF found THEN [mounted EXCEPT ![i] = t]
                                 ELSE mounted
                   /\ UNCHANGED deleted_mem
    /\ UNCHANGED <<running, dumped>>
    /\ UNCHANGED <<state_file, bak_file, updated>>
    /\ seen' = seen \cup Range(mounted')
    /\ UNCHANGED <<timerVars, aggVars, storeVars, uiVars, repeatVars, ctwVars,
                   ctcVars>>

\* action_delete_selected_timer on the focused timer i: its snapshot, with
\* status deleted, is appended to _deleted and the component is removed
DeleteSelected ==
    /\ running = "running"
    /\ \E i \in 1..Len(mounted) :
        /\ deleted_mem' = Append(deleted_mem,
                                 [id |-> mounted[i], status |-> "deleted"])
        /\ mounted' = RemoveAt(mounted, i)
    /\ UNCHANGED <<running, prev_deleted, dumped>>
    /\ UNCHANGED stateVars
    /\ UNCHANGED <<timerVars, aggVars, storeVars, uiVars, extVars>>

\* action_undo_delete_timer: the last entry of _deleted is mounted again,
\* before the focused timer, or last when none has the focus
UndoDelete ==
    /\ running = "running"
    /\ deleted_mem # <<>>
    /\ LET state == deleted_mem[Len(deleted_mem)]
       IN /\ deleted_mem' = SubSeq(deleted_mem, 1, Len(deleted_mem) - 1)
          /\ \E at \in 1..(Len(mounted) + 1) :
                mounted' = IF state.id \in Range(mounted) THEN mounted
                           ELSE InsertAt(mounted, at, state.id)
    /\ UNCHANGED <<running, prev_deleted, dumped>>
    /\ UNCHANGED stateVars
    /\ seen' = seen \cup Range(mounted')
    /\ UNCHANGED <<timerVars, aggVars, storeVars, uiVars, repeatVars, ctwVars,
                   ctcVars>>

\* action_quit: action_dump_state, then exit; StateStore.dump raises when
\* there is no state file
Quit ==
    /\ running = "running"
    /\ LET m1 == StoreCall(memo, updated, state_file, "load_deleted")
           states == DumpStateList(mounted, m1["load_deleted"].res,
                                   deleted_mem)
       IN /\ memo' = m1
          /\ CallGhosts(m1, "load_deleted")
          /\ dumped' = [done |-> TRUE,
                        raised |-> IF state_file.exists THEN ""
                                   ELSE "FileNotFoundError",
                        active |-> mounted, states |-> states]
          /\ IF state_file.exists
             THEN /\ bak_file' = state_file
                  /\ state_file' =
                        JsonDump([i \in 1..Len(states) |-> AsDict(states[i])])
             ELSE UNCHANGED <<state_file, bak_file>>
    /\ updated' = updated + 1
    /\ running' = "exited"
    /\ UNCHANGED <<mounted, deleted_mem, prev_deleted>>
    /\ UNCHANGED <<timerVars, aggVars, storeVars, uiVars, extVars>>

NextApp ==
    \/ Compose
    \/ BlurRestore
    \/ DeleteSelected
    \/ UndoDelete
    \/ Quit

SpecApp == InitApp /\ [][NextApp]_vars

-----------------------------------------------------------------------------
(* Starting and stopping timers: pymodoro.py, component.py, widget.py.     *)
(* A widget's Started and Stopped messages go to its component first and   *)
(* then to the app, each through the receiver's message queue              *)

MaxInFlight == 2

InFlight(t) == Len(to_ctc[t]) + Len(to_app[t])

\* CountdownTimerWidget.start: nothing when the timer is active or has no
\* time remaining; a Started message otherwise
WidgetStart(t) ==
    IF ctw_active[t] \/ spent[t]
    THEN UNCHANGED <<ctw_active, to_ctc>>
    ELSE /\ ctw_active' = [ctw_active EXCEPT ![t] = TRUE]
         /\ to_ctc' = [to_ctc EXCEPT ![t] = Append(@, "started")]

\* CountdownTimerWidget.stop: nothing when the timer is not active; a
\* Stopped message otherwise
WidgetStop(t) ==
    IF ~ctw_active[t]
    THEN UNCHANGED <<ctw_active, to_ctc>>
    ELSE /\ ctw_active' = [ctw_active EXCEPT ![t] = FALSE]
         /\ to_ctc' = [to_ctc EXCEPT ![t] = Append(@, "stopped")]

InitActive ==
    /\ TimerInit /\ ct = CtNew(MaxInitialSeconds)
    /\ AggInit
    /\ StoreInit
    /\ StateInit
    /\ AppInit

\* action_start_or_stop with timer t focused
ActionStartOrStop ==
    /\ \E t \in TimerIds :
        /\ InFlight(t) < MaxInFlight
        /\ IF ctc_active[t] THEN WidgetStop(t)
           ELSE IF has_active_timer THEN UNCHANGED <<ctw_active, to_ctc>>
           ELSE WidgetStart(t)
    /\ UNCHANGED <<spent, ctc_active, has_active_timer, to_app>>
    /\ UNCHANGED <<timerVars, aggVars, storeVars, stateVars, appVars, winVars,
                   widgetVars, extVars>>

\* on_button_pressed of timer t: the start button shows while the
\* component is not active and the stop button while it is
OnButtonPressed ==
    /\ \E t \in TimerIds, button_id \in {"start", "stop"} :
        /\ InFlight(t) < MaxInFlight
        /\ (button_id = "stop") <=> ctc_active[t]
        /\ IF ~(~has_active_timer \/ ctc_active[t])
           THEN UNCHANGED <<ctw_active, to_ctc>>
           ELSE IF button_id = "start" THEN WidgetStart(t)
           ELSE WidgetStop(t)
    /\ UNCHANGED <<spent, ctc_active, has_active_timer, to_app>>
    /\ UNCHANGED <<timerVars, aggVars, storeVars, stateVars, appVars, winVars,
                   widgetVars, extVars>>

\* CountdownTimerWidget._update finds the running timer t at remaining 0
\* and stops it
Expire ==
    /\ \E t \in TimerIds :
        /\ ctw_active[t]
        /\ InFlight(t) < MaxInFlight
        /\ spent' = [spent EXCEPT ![t] = TRUE]
        /\ WidgetStop(t)
    /\ UNCHANGED <<ctc_active, has_active_timer, to_app>>
    /\ UNCHANGED <<timerVars, aggVars, storeVars, stateVars, appVars, winVars,
                   widgetVars, extVars>>

\* action_reset with timer t focused: the component stops the widget when
\* it has the class active, then the timer is reset, which gives it its
\* time back and leaves is_active as it is
ActionReset ==
    /\ \E t \in TimerIds :
        /\ InFlight(t) < MaxInFlight
        /\ IF ctc_active[t] THEN WidgetStop(t)
           ELSE UNCHANGED <<ctw_active, to_ctc>>
        /\ spent' = [spent EXCEPT ![t] = FALSE]
    /\ UNCHANGED <<ctc_active, has_active_timer, to_app>>
    /\ UNCHANGED <<timerVars, aggVars, storeVars, stateVars, appVars, winVars,
                   widgetVars, extVars>>

\* CountdownTimerComponent.on_countdown_timer_widget_started / _stopped:
\* the class active is set or cleared, and the message goes on to the app
DeliverToComponent ==
    /\ \E t \in TimerIds :
        /\ to_ctc[t] # <<>>
        /\ ctc_active' = [ctc_active EXCEPT ![t] = (Head(to_ctc[t]) = "started")]
        /\ to_ctc' = [to_ctc EXCEPT ![t] = Tail(@)]
        /\ to_app' = [to_app EXCEPT ![t] = Append(@, Head(to_ctc[t]))]
    /\ UNCHANGED <<ctw_active, spent, has_active_timer>>
    /\ UNCHANGED <<timerVars, aggVars, storeVars, stateVars, appVars, winVars,
                   widgetVars, extVars>>

\* Pymodoro.on_countdown_timer_widget_started / _stopped
DeliverToApp ==
    /\ \E t \in TimerIds :
        /\ to_app[t] # <<>>
        /\ has_active_timer' = (Head(to_app[t]) = "started")
        /\ to_app' = [to_app EXCEPT ![t] = Tail(@)]
    /\ UNCHANGED <<ctw_active, spent, ctc_active, to_ctc>>
    /\ UNCHANGED <<timerVars, aggVars, storeVars, stateVars, appVars, winVars,
                   widgetVars, extVars>>

NextActive ==
    \/ ActionStartOrStop
    \/ OnButtonPressed
    \/ Expire
    \/ ActionReset
    \/ DeliverToComponent
    \/ DeliverToApp

SpecActive == InitActive /\ [][NextActive]_vars

-----------------------------------------------------------------------------
(* Switching the displayed window: time_spent.py, pymodoro.py *)

MaxClicks == 5

\* TimeSpentContainer.set_displayed_time(window_id), called by
\* watch_current_time_window_id for every container: the named aggregator
\* becomes the shown one
SetDisplayedTime(ptr, window_id) == [c \in DOMAIN ptr |-> window_id]

\* TimeSpentContainer.on_click on container c: the app's window id becomes
\* the successor of the one this container shows; the change runs
\* watch_current_time_window_id and each container's
\* watch_current_time_spent_ptr
Click ==
    /\ clicks < MaxClicks
    /\ \E c \in TimerIds :
        LET window_id == NextWindow(current_time_spent_ptr[c])
            ptr == IF window_id # current_time_window_id
                   THEN SetDisplayedTime(current_time_spent_ptr, window_id)
                   ELSE current_time_spent_ptr
        IN /\ current_time_window_id' = window_id
           /\ current_time_spent_ptr' = ptr
           /\ hidden' = [d \in TimerIds |->
                            IF ptr[d] # current_time_spent_ptr[d]
                            THEN HiddenFor(ptr[d]) ELSE hidden[d]]
    /\ clicks' = clicks + 1
    /\ UNCHANGED <<ctw_active, spent, ctc_active, has_active_timer, to_ctc,
                   to_app, widgetVars, extVars>>
    /\ UNCHANGED <<timerVars, aggVars, storeVars, stateVars, appVars>>

NextWindowed ==
    \/ Click
    \/ (wall < MaxStoreWall /\ WallTick)
    \/ Register
    \/ PruneRegularly

SpecWindowed == InitAgg /\ [][NextWindowed]_vars

-----------------------------------------------------------------------------
(* CountdownTimerWidget: widgets/countdown_timer/widget.py.  Every Started, *)
(* Stopped and Completed message registers its event when it is made       *)

MaxLogged == 4

\* variant: Completed is emitted after every stop
StopEventsAlwaysCompleted(remaining) ==
    <<[name |-> "stopped", remaining |-> remaining],
      [name |-> "completed", remaining |-> 0]>>

\* the messages of CountdownTimerWidget.stop: Stopped with what remains,
\* and Completed when nothing remains
StopEvents(remaining) ==
    IF remaining = 0
    THEN <<[name |-> "stopped", remaining |-> remaining],
           [name |-> "completed", remaining |-> 0]>>
    ELSE <<[name |-> "stopped", remaining |-> remaining]>>

CountCompleted(evs) ==
    Len(SelectSeq(evs, LAMBDA e : e.name = "completed"))

\* CountdownTimerWidget.stop on timer t: nothing when it is not active;
\* otherwise the timer is stopped, the display updated (the timer is no
\* longer active there) and the messages are emitted
CtwStop(t, now) ==
    IF ~CtIsActive(t) THEN [ct |-> t, events |-> <<>>]
    ELSE LET st == CtStop(t, now)
             r1 == CtRemaining(st.ct, now)
             r2 == CtRemaining(r1.ct, now)
         IN [ct |-> r2.ct, events |-> StopEvents(r2.ret)]

\* CountdownTimerWidget._update on timer t: a running timer with nothing
\* remaining is stopped; the remaining time is read for the display
CtwUpdate(t, now) ==
    LET r == IF CtIsActive(t) THEN CtRemaining(t, now)
             ELSE [ct |-> t, ret |-> 1]
        st == IF CtIsActive(t) /\ r.ret = 0 THEN CtwStop(r.ct, now)
              ELSE [ct |-> r.ct, events |-> <<>>]
    IN [ct |-> CtRemaining(st.ct, now).ct, events |-> st.events]

\* variant: stop leaves the intervals as they are
CtwStopPausesNever(t, paused) == paused

\* CountdownTimerWidget._pause_or_resume_timers: both intervals at once
PauseOrResumeTimers(pause) == pause

\* the intervals after CountdownTimerWidget.stop on timer t: paused when
\* the timer is active, before the timer is stopped
CtwStopPauses(t, paused) ==
    IF ~CtIsActive(t) THEN paused ELSE PauseOrResumeTimers(TRUE)

\* the intervals after CountdownTimerWidget._update on timer t: stop is
\* called for a running timer with nothing remaining
CtwUpdatePauses(t, now, paused) ==
    IF CtIsActive(t) /\ CtRemaining(t, now).ret = 0
    THEN CtwStopPauses(t, paused)
    ELSE paused

InitWidget == Init

WidgetStep(name, res) ==
    /\ Len(wlog) + Len(res.events) <= MaxLogged
    /\ ct' = res.ct
    /\ pre' = ct
    /\ op' = name
    /\ wlog' = wlog \o res.events
    /\ UNCHANGED <<clock, ret, restored, openedAt, closedSum>>
    /\ UNCHANGED <<ctw_active, spent, ctc_active, has_active_timer, to_ctc,
                   to_app, winVars, repeatVars, ctcVars, seen>>
    /\ UNCHANGED <<aggVars, storeVars, stateVars, appVars>>

\* CountdownTimerWidget.start
CtwStartAction ==
    LET r == CtRemaining(ct, clock)
        st == CtStart(r.ct, clock)
    IN /\ WidgetStep("ctw_start",
                     [ct |-> st.ct,
                      events |-> IF st.ret
                                 THEN <<[name |-> "started",
                                         remaining |-> r.ret]>>
                                 ELSE <<>>])
       /\ refresh_paused' = IF st.ret THEN PauseOrResumeTimers(FALSE)
                            ELSE refresh_paused
       /\ UNCHANGED completions

\* CountdownTimerWidget.stop, asked for by the user
CtwStopAction ==
    LET res == CtwStop(ct, clock)
    IN /\ WidgetStep("ctw_stop", res)
       /\ refresh_paused' = CtwStopPauses(ct, refresh_paused)
       /\ completions' = completions + CountCompleted(res.events)

\* CountdownTimerWidget._update, run by set_interval(1 / 60, self._update)
\* while the intervals are not paused
CtwUpdateAction ==
    LET res == CtwUpdate(ct, clock)
    IN /\ ~refresh_paused
       /\ WidgetStep("ctw_update", res)
       /\ refresh_paused' = CtwUpdatePauses(ct, clock, refresh_paused)
       /\ completions' = completions + CountCompleted(res.events)

\* CountdownTimerWidget.reset
CtwResetAction ==
    LET rs == CtReset(ct, clock)
        res == CtwUpdate(rs.ct, clock)
    IN /\ WidgetStep("ctw_reset", res)
       /\ refresh_paused' = CtwUpdatePauses(rs.ct, clock, refresh_paused)
       /\ completions' = CountCompleted(res.events)

NextWidget ==
    \/ Tick
    \/ CtwStartAction
    \/ CtwStopAction
    \/ CtwUpdateAction
    \/ CtwResetAction

SpecWidget == InitWidget /\ [][NextWidget]_vars

----------------------------------------------------------------------------
(* Properties of the countdown timer *)

\* C1: reset(), from any state and also mid-run, leaves total_elapsed = 0
\* and is_active = FALSE.
C1_ResetZeroAndIdle ==
    op = "reset" => TotalElapsed(ct, clock) = 0 /\ ~CtIsActive(ct)

\* C2: in every reachable state is_active holds exactly when the Period is
\* open (the timer owns a single Period, so at most one is open).
C2_ActiveIffPeriodOpen == CtIsActive(ct) <=> PeriodOpen(ct)

\* C3: under start/stop sequences, total_elapsed of an idle timer (so after
\* any stop) is the sum of the durations of the closed Periods, and a start
\* while active or a stop while idle leaves total_elapsed as it was.
C3_TotalIsClosedSum ==
    /\ ~CtIsActive(ct) => TotalElapsed(ct, clock) = closedSum
    /\ (op = "start" /\ CtIsActive(pre))
          => TotalElapsed(ct, clock) = TotalElapsed(pre, clock)
    /\ (op = "stop" /\ ~CtIsActive(pre))
          => TotalElapsed(ct, clock) = TotalElapsed(pre, clock)

C3_Witness ==
    /\ op = "stop"
    /\ CtIsActive(pre)
    /\ ret > 0
    /\ closedSum > ret

\* C4: start() returns FALSE and changes neither the active flag, the
\* accumulated elapsed nor the Period's start instant when the timer is
\* active or has nothing remaining; otherwise it opens the Period, makes the
\* timer active and returns TRUE.
C4_StartContract ==
    op = "start" =>
        IF CtIsActive(pre) \/ Remaining(pre, clock) = 0
        THEN /\ ret = FALSE
             /\ ct.active = pre.active
             /\ ct.elapsed = pre.elapsed
             /\ ct.period.start = pre.period.start
        ELSE /\ ret = TRUE
             /\ CtIsActive(ct)
             /\ PeriodOpen(ct)
             /\ ct.period.start = clock

C4_Witness ==
    /\ op = "start"
    /\ ~CtIsActive(pre)
    /\ Remaining(pre, clock) = 0
    /\ ret = FALSE

\* C5: stop() on an idle timer changes nothing and returns 0; on an active
\* timer it closes the Period, adds that Period's duration (the time since
\* the start that opened it) to the accumulated elapsed, makes the timer
\* idle and returns that duration.
C5_StopContract ==
    op = "stop" =>
        IF CtIsActive(pre)
        THEN /\ ret = clock - openedAt
             /\ ct.elapsed = pre.elapsed + ret
             /\ ~CtIsActive(ct)
             /\ ~PeriodOpen(ct)
        ELSE ret = 0 /\ ct = pre

\* C6: remaining = max(0, initial_seconds - total_elapsed) in every
\* reachable state, and is never negative.
C6_RemainingFormula ==
    LET left == ct.initial_seconds - TotalElapsed(ct, clock)
    IN /\ Remaining(ct, clock) >= 0
       /\ Remaining(ct, clock) = (IF left > 0 THEN left ELSE 0)
       /\ op = "remaining" => ret = (IF left > 0 THEN left ELSE 0)

C6_Witness ==
    /\ op = "remaining"
    /\ ret = 0
    /\ TotalElapsed(ct, clock) > ct.initial_seconds

\* C7: total_elapsed never decreases while the timer is active, does not
\* change while it is inactive however much time passes, and goes back to 0
\* only in a reset() step.
C7_ElapsedMonotone ==
    [][ /\ (CtIsActive(ct) /\ op' # "reset")
            => TotalElapsed(ct', clock') >= TotalElapsed(ct, clock)
        /\ (~CtIsActive(ct) /\ op' # "reset")
            => TotalElapsed(ct', clock') = TotalElapsed(ct, clock)
        /\ (TotalElapsed(ct', clock') = 0 /\ TotalElapsed(ct, clock) # 0)
            => op' = "reset" ]_vars

C7_Witness ==
    /\ op = "tick"
    /\ ~CtIsActive(ct)
    /\ ct.elapsed > 0
    /\ TotalElapsed(ct, clock) = ct.elapsed

\* C8: Period.stop() on a Period that is not open returns 0 (reset() hands
\* back what Period.stop() returns), and a start()/stop() pair on the Period
\* returns the time between that start and that stop.
C8_UnopenedPeriodStopIsZero ==
    /\ (op = "reset" /\ ~PeriodOpen(pre)) => ret = 0
    /\ (op = "stop" /\ PeriodOpen(pre)) => ret = clock - openedAt

\* C9: from_state(dump_state(timer)) has the initial_seconds, total_elapsed
\* and remaining the original had at the dump, and is idle with an unopened
\* Period, also when the original was running.
C9_DumpRoundTrip ==
    op = "dump" =>
        /\ restored.initial_seconds = pre.initial_seconds
        /\ TotalElapsed(restored, clock) = TotalElapsed(pre, clock)
        /\ Remaining(restored, clock) = Remaining(pre, clock)
        /\ ~CtIsActive(restored)
        /\ ~PeriodOpen(restored)

C9_Witness ==
    /\ op = "dump"
    /\ CtIsActive(pre)
    /\ PeriodOpen(pre)
    /\ pre.elapsed > 0
    /\ TotalElapsed(pre, clock) > pre.elapsed
    /\ ~CtIsActive(restored)

----------------------------------------------------------------------------
(* Properties of the windowed aggregator *)

\* no event is stamped with the present instant: the query comes after them
QueryAfterEvents == \A i \in 1..Len(log) : log[i].at < wall

\* C10: whenever an aggregator displays its total at a time T after the
\* logged events, the total less the open period's elapsed is the sum of
\* elapsed over the logged events of its component with a relevant name and
\* a timestamp in [window_start(T), T), an event stamped exactly
\* window_start(T) included.
C10_DisplayedIsWindowSum ==
    (shown.fresh /\ QueryAfterEvents)
        => shown.total - shown.cur = WindowSum(shown.kind, log, wall)

----------------------------------------------------------------------------
(* The event log: append, load, subscribe.                                 *)

\* the lines of the file that json.loads accepts, parsed
ValidEvents ==
    LET ok == SelectSeq(file.lines, LAMBDA l : l.json)
    IN [i \in 1..Len(ok) |-> ParseLine(ok[i])]

\* C15: EventStore.load() after N register calls on an initially empty
\* log returns exactly those N events, in the order they were appended,
\* none lost, duplicated or reordered.
C15_LoadReturnsAppended ==
    (loaded.fresh /\ Len(log) >= 1 /\ TornCount = 0)
        => (loaded.raised = "" /\ loaded.events = log)

C15_Witness ==
    /\ loaded.fresh /\ TornCount = 0
    /\ Len(log) = MaxEvents
    /\ log[1] # log[2]
    /\ loaded.events = log

C17_LoadMissingFileIsEmpty ==
    (loaded.fresh /\ ~file.exists)
        => (loaded.raised = "" /\ loaded.events = <<>>)

\* C18: EventStore.load() of a file with a line that does not parse among
\* valid lines still returns every valid event, the bad line reported as
\* an error of that record only.
C18_LoadSkipsBadLine ==
    (loaded.fresh /\ file.exists /\ TornCount > 0 /\ ValidEvents # <<>>)
        => (loaded.raised = "" /\ loaded.events = ValidEvents)

----------------------------------------------------------------------------
(* The aggregators over the event log.                                     *)

\* the events the claims count for an aggregator of kind k at instant now:
\* of the component, stopped or manually accounted, stamped at or after
\* window_start
InWindow(k, d, now) ==
    /\ d.component_id = ComponentId
    /\ d.name \in {"stopped", "manually_accounted_time"}
    /\ d.at >= WindowStart(k, now)

\* C11: a newly built aggregator holds every event ever registered for its
\* component that is named stopped or manually_accounted_time and stamped
\* at or after window_start at that moment, each once, whichever process
\* registered it, and its prev_spent is the sum of their elapsed.
C11_ConstructSeedsWindow ==
    constructed =>
        \A k \in Kinds :
            LET seed == SelectSeq(log, LAMBDA d : InWindow(k, d, wall))
            IN /\ agg[k].events = seed
               /\ agg[k].prev_spent = SumElapsed(seed)

\* the registered events an aggregator of the component can ever hold
Candidates == SelectSeq(log, LAMBDA d : d.component_id = ComponentId
                                       /\ d.name \in RelevantNames)

\* what a prune at instant now makes of queue es: the events it drops and
\* the events it keeps
Old(k, es, now) == SelectSeq(es, LAMBDA d : d.at <= WindowStart(k, now))
Recent(k, es, now) == SelectSeq(es, LAMBDA d : d.at > WindowStart(k, now))

PrunedTo(k, before, after, now) ==
    /\ before.events = Old(k, before.events, now) \o after.events
    /\ after.events = Recent(k, before.events, now)
    /\ after.prev_spent =
           before.prev_spent - SumElapsed(Old(k, before.events, now))

\* C12: a prune that updates the total removes from the front of the queue
\* exactly the events stamped at or before window_start, takes exactly
\* the sum of their elapsed off prev_spent and leaves no such event
\* anywhere in the queue; an event once out of the queue never comes back,
\* so it is evicted at most once.
C12_PruneEvictsExactlyOld ==
    [][/\ PruneRegularly =>
            \E k \in Kinds :
                /\ PrunedTo(k, agg[k], agg'[k], wall)
                /\ \A j \in Kinds \ {k} : agg'[j] = agg[j]
       /\ \A k \in Kinds :
            Len(Candidates') - Len(agg'[k].events)
                >= Len(Candidates) - Len(agg[k].events)]_vars

C12_Witness ==
    /\ ~constructed
    /\ in_mem_events = log
    /\ Len(log) = 2
    /\ Candidates = log
    /\ log[1].at <= WindowStart("TimeSpentDay", wall)
    /\ agg["TimeSpentDay"] = [events |-> <<log[2]>>,
                              prev_spent |-> log[2].elapsed]

C14_TodayScenario ==
    (/\ shown.fresh /\ shown.kind = "TimeSpentDay" /\ shown.cur = 0
     /\ Len(log) = 1 /\ Candidates = log)
        => IF WindowStart("TimeSpentDay", wall) <= log[1].at
           THEN shown.total = log[1].elapsed
           ELSE shown.total = 0 /\ agg["TimeSpentDay"].events = <<>>

Sorted(es) == \A i, j \in 1..Len(es) : i < j => es[i].at <= es[j].at

----------------------------------------------------------------------------
(* The state store.                                                        *)

\* C20: whatever the store holds before, state file present or absent,
\* StateStore.dump(S) followed by StateStore.load() returns snapshots
\* equivalent to S, in the same order.
C20_DumpLoadRoundTrip ==
    ss.op = "dump_load" => (~ss.ret.none /\ ss.ret.states = ss.arg)

\* C21: after every dump that overwrites an existing state file the .bak
\* holds exactly what the state file held right before that dump; the
\* contents from before a dump are not lost by it, also when the dump
\* ends part-way through writing.
C21_BakHoldsPrevious ==
    /\ (ss.op \in {"dump", "dump_cut_write"} /\ ss.before.exists)
          => bak_file = ss.before
    /\ (ss.op \in {"dump", "dump_cut_copy", "dump_cut_write"}
            /\ ss.before.exists)
          => ss.before \in {bak_file, state_file}

C21_Witness ==
    /\ ss.op = "dump_cut_write"
    /\ updated = 2
    /\ ss.before.json /\ ss.before.dicts # <<>>
    /\ bak_file = ss.before
    /\ state_file = Garbage

LoaderOf(o) == IF o = "dump_load" THEN "load" ELSE o

\* C22: between two consecutive dumps, however often load(),
\* load_current() and load_deleted() are called, the state file is read
\* and parsed at most once and each of them returns every time what it
\* returned first.
C22_LoadsAreMemoized ==
    /\ reads <= 1
    /\ LoaderOf(ss.op) \in Loaders => ss.ret = first[LoaderOf(ss.op)].ret

C22_Witness ==
    /\ ss.op = "load_deleted" /\ ss.again
    /\ \A fn \in Loaders : first[fn].called
    /\ reads = 1
    /\ ~ss.ret.none /\ ss.ret.states # <<>>

\* what the state file holds, seen through each loader
ViewOfFile(fn, f) ==
    LET all == IF f.exists /\ f.json
               THEN ListResult([i \in 1..Len(f.dicts) |->
                                   [id |-> f.dicts[i].id,
                                    status |-> f.dicts[i].status]])
               ELSE NoneResult
        kept == SelectSeq(all.states,
                          LAMBDA x : IF fn = "load_deleted"
                                     THEN x.status = "deleted"
                                     ELSE x.status # "deleted")
    IN IF fn = "load" THEN all
       ELSE IF all.none \/ all.states = <<>> THEN NoneResult
       ELSE ListResult(kept)

\* C23: after any dump, whether it succeeded or not, load(),
\* load_current() and load_deleted() return what the state file holds
\* after that dump and never a value kept from before it; every dump
\* increases the generation counter, and the counter never decreases.
C23_DumpInvalidatesMemo ==
    /\ [](LoaderOf(ss.op) \in Loaders
            => ss.ret = ViewOfFile(LoaderOf(ss.op), state_file))
    /\ [][/\ updated' >= updated
          /\ ss'.op \in {"dump", "dump_cut_copy", "dump_cut_write"}
                => updated' = updated + 1]_vars

C23_Witness ==
    /\ ss.op = "load_deleted"
    /\ updated = 2
    /\ memo["load_current"].last_updated = 1
    /\ ~memo["load_current"].res.none
    /\ ss.ret.none

\* C24: StateStore.load() returns None and raises nothing when the state
\* file is absent or does not parse, and the parsed snapshots otherwise.
C24_LoadNoneOnFailure ==
    LoaderOf(ss.op) = "load" =>
        /\ ss.raised = ""
        /\ IF ~state_file.exists \/ ~state_file.json
           THEN ss.ret = NoneResult
           ELSE /\ ~ss.ret.none
                /\ Len(ss.ret.states) = Len(state_file.dicts)
                /\ \A i \in 1..Len(state_file.dicts) :
                      /\ ss.ret.states[i].id = state_file.dicts[i].id
                      /\ ss.ret.states[i].status = state_file.dicts[i].status

C24_Witness ==
    /\ ss.op = "load"
    /\ state_file = Garbage
    /\ updated = 1
    /\ ss.ret = NoneResult

\* C25: at every call load_deleted() returns exactly the snapshots of
\* load() whose status is deleted and load_current() exactly those whose
\* status is not deleted, so that the two are disjoint and together hold
\* every snapshot of load(), after any restores and dumps.
C25_ViewsPartitionLoad ==
    (ss.op \in {"load_current", "load_deleted"} /\ ~ss.ret.none)
        => ss.ret.states =
             SelectSeq(ss.all.states,
                       LAMBDA x : (x.status = "deleted")
                                     <=> (ss.op = "load_deleted"))

\* C26: the list the application dumps holds each timer id once, the
\* mounted timers first in display order with their current state, and
\* after them deleted snapshots only.
C26_DumpListOrder ==
    dumped.done =>
        LET n == Len(dumped.active)
            out == dumped.states
        IN /\ \A i, j \in 1..Len(out) : out[i].id = out[j].id => i = j
           /\ n <= Len(out)
           /\ \A i \in 1..n : /\ out[i].id = dumped.active[i]
                              /\ out[i].status = "in_progress"
           /\ \A i \in (n + 1)..Len(out) : out[i].status = "deleted"

\* C27: no two countdown timers are active at the same time, however the
\* start and stop requests interleave with the delivery of the Started and
\* Stopped messages.
C27_OneActiveTimer ==
    \A t, u \in TimerIds : (ctw_active[t] /\ ctw_active[u]) => t = u

\* C28: a click on a time-spent container moves the display to the next
\* window kind in the order Total, Week, WorkWeek, Day and back to the
\* first after as many clicks as there are kinds; every container shows
\* exactly one kind; the click leaves the queue and prev_spent of every
\* aggregator as they were.
C28_ClickCyclesWindows ==
    /\ [](/\ current_time_window_id = KindOrder[(clicks % Len(KindOrder)) + 1]
          /\ \A c \in TimerIds :
                /\ current_time_spent_ptr[c] = current_time_window_id
                /\ Range(KindOrder) \ hidden[c] = {current_time_window_id})
    /\ [][clicks' # clicks => agg' = agg]_vars

C28_Witness ==
    /\ clicks = Len(KindOrder)
    /\ current_time_window_id = KindOrder[1]
    /\ agg["TimeSpentTotal"].events # <<>>
    /\ agg["TimeSpentTotal"].prev_spent > 0

\* C29: a timer of 10 seconds that is started, runs 4 units and is stopped
\* returns 4 from stop() and has 6 remaining; started again with 4 units
\* spent, after 6 more units it has remaining 0 and total_elapsed 10.
C29_TenFourSix ==
    /\ (op = "stop" /\ pre.active /\ clock - openedAt = 4 /\ closedSum = 4)
          => (ret = 4 /\ Remaining(ct, clock) = 6)
    /\ (ct.active /\ closedSum = 4 /\ clock - openedAt = 6)
          => (Remaining(ct, clock) = 0 /\ TotalElapsed(ct, clock) = 10)

C29_Witness ==
    /\ ct.active
    /\ ct.elapsed = 4
    /\ closedSum = 4
    /\ openedAt = 5
    /\ clock = 11
    /\ Remaining(ct, clock) = 0

\* C30: when the widget finds its running timer at remaining 0 it stops
\* the timer and registers a stopped event and right after it a completed
\* event; every completed event comes directly after a stopped event with
\* remaining 0; at most one completed event is registered between two
\* resets.
C30_StoppedThenCompleted ==
    /\ [](\A i \in 1..Len(wlog) :
            wlog[i].name = "completed"
                => /\ i > 1
                   /\ wlog[i - 1] = [name |-> "stopped", remaining |-> 0])
    /\ [](completions <= 1)
    /\ [][(op' = "ctw_update" /\ CtIsActive(ct) /\ Remaining(ct, clock) = 0)
            => /\ ~CtIsActive(ct')
               /\ wlog' = wlog \o <<[name |-> "stopped", remaining |-> 0],
                                    [name |-> "completed", remaining |-> 0]>>]_vars

C30_Witness ==
    /\ op = "ctw_update"
    /\ CtIsActive(pre) /\ ~CtIsActive(ct)
    /\ Len(wlog) >= 3
    /\ wlog[Len(wlog)].name = "completed"
    /\ wlog[Len(wlog) - 1] = [name |-> "stopped", remaining |-> 0]
    /\ completions = 1

\* C35: every value stop() returns lies between 0 and the clock time that
\* passed since the timer's last successful start(), after any starts,
\* stops and resets, also after a reset while the timer runs.
C35_StopReturnBounded ==
    op = "stop" => (0 <= ret /\ ret <= clock - openedAt)

----------------------------------------------------------------------------
(* exec_on_repeat: utils.py.  Time is counted in whole milliseconds. *)

MaxMono == 4
MaxRepeat == 3
MaxWindowMs == 2
MaxCalls == 4

\* float("-inf"): so far back that its distance to any call exceeds any
\* window
NegInf == 0 - (MaxMono + MaxWindowMs + 1)

\* _reset: call_times = deque([-inf] * num_repeat, maxlen=num_repeat)
DequeReset(n) == [i \in 1..n |-> NegInf]

\* deque.append with maxlen: the oldest entry drops out when the deque is full
DequeAppend(d, x, n) ==
    IF Len(d) < n THEN Append(d, x) ELSE Append(Tail(d), x)

\* variant: the call history is kept after an execution
WrapperNoReset(d, now, n, w) ==
    LET appended == DequeAppend(d, now, n)
        skip == appended[Len(appended)] - appended[1] > w
    IN [call_times |-> appended, ran |-> ~skip]

\* wrapper: append the call time, return without executing when the newest
\* and the oldest entry are more than the window apart, else _reset and call
\* fn
Wrapper(d, now, n, w) ==
    LET appended == DequeAppend(d, now, n)
        skip == appended[Len(appended)] - appended[1] > w
    IN [call_times |-> IF skip THEN appended ELSE DequeReset(n),
        ran |-> ~skip]

\* exec_on_repeat(fn, num_repeat=n, window_ms=w): the asserts, then _reset
ExecOnRepeat ==
    /\ decorated = NotDecorated
    /\ \E n \in 1..MaxRepeat, w \in 1..MaxWindowMs :
          /\ decorated' = [num_repeat |-> n, window_ms |-> w]
          /\ call_times' = DequeReset(n)
    /\ UNCHANGED <<mono, calls>>
    /\ UNCHANGED <<timerVars, aggVars, storeVars, stateVars, appVars, uiVars,
                   ctwVars, ctcVars, seen>>

\* time passes between two calls
MonoTick ==
    /\ mono < MaxMono
    /\ mono' = mono + 1
    /\ UNCHANGED <<decorated, call_times, calls>>
    /\ UNCHANGED <<timerVars, aggVars, storeVars, stateVars, appVars, uiVars,
                   ctwVars, ctcVars, seen>>

\* one call of the decorated function
CallWrapper ==
    /\ decorated # NotDecorated
    /\ Len(calls) < MaxCalls
    /\ LET r == Wrapper(call_times, mono, decorated.num_repeat,
                        decorated.window_ms)
       IN /\ call_times' = r.call_times
          /\ calls' = Append(calls, [at |-> mono, ran |-> r.ran])
    /\ UNCHANGED <<mono, decorated>>
    /\ UNCHANGED <<timerVars, aggVars, storeVars, stateVars, appVars, uiVars,
                   ctwVars, ctcVars, seen>>

NextRepeat ==
    \/ ExecOnRepeat
    \/ MonoTick
    \/ CallWrapper

SpecRepeat == InitAgg /\ [][NextRepeat]_vars

\* the calls before call k, counted back to the last execution
LastRan(k) ==
    LET ran == {j \in 1..(k - 1) : calls[j].ran}
    IN IF ran = {} THEN 0 ELSE CHOOSE j \in ran : \A i \in ran : i <= j

\* C34: the wrapped function executes on a call exactly when that call and
\* the num_repeat - 1 calls before it, counted since the last execution, all
\* fall within window_ms; after an execution the history is cleared, so the
\* next execution needs num_repeat fresh calls within the window.
C34_ExecOnRepeat ==
    \A k \in 1..Len(calls) :
        calls[k].ran <=>
            /\ k - LastRan(k) >= decorated.num_repeat
            /\ calls[k].at - calls[k - decorated.num_repeat + 1].at
                  <= decorated.window_ms

\* a double call executed, and the call right after it, still inside the
\* window of the call before, did not
C34_Witness ==
    /\ decorated.num_repeat = 2
    /\ \E k \in 2..(Len(calls) - 1) :
          /\ calls[k].ran
          /\ ~calls[k + 1].ran
          /\ calls[k + 1].at - calls[k].at <= decorated.window_ms

\* C36: after construction, after every on_new_event and after every
\* prune, the prev_spent of each window aggregator is the sum of the
\* elapsed of the events in its queue.
C36_PrevSpentIsQueueSum ==
    \A k \in Kinds : agg[k].prev_spent = SumElapsed(agg[k].events)

\* two events were taken in, the day rolled over, and the day's aggregator
\* has dropped the older one while the total one keeps both
C36_Witness ==
    /\ Len(log) = 2
    /\ agg["TimeSpentTotal"].events = log
    /\ agg["TimeSpentDay"].events = <<log[2]>>
    /\ log[1].at < WindowStart("TimeSpentDay", wall)
    /\ log[2].at < wall
    /\ agg["TimeSpentTotal"].prev_spent > agg["TimeSpentDay"].prev_spent

\* C33: whenever control is back with the event loop, the refresh
\* intervals of a widget run exactly when its CountdownTimer is active: stop
\* pauses them together with the timer becoming idle, start resumes them
\* together with it becoming active.
C33_RefreshRunsIffActive ==
    ~refresh_paused <=> CtIsActive(ct)

\* the timer was started, stopped by hand with time left, and started again
C33_Witness ==
    /\ op = "ctw_start"
    /\ CtIsActive(ct)
    /\ ~refresh_paused
    /\ Len(wlog) = 3
    /\ wlog[2].name = "stopped"
    /\ wlog[2].remaining > 0

\* the started and stopped events of the widget, in the order logged
StartStopEvents ==
    SelectSeq(wlog, LAMBDA e : e.name \in {"started", "stopped"})

\* C32: the started and stopped events logged for a component alternate,
\* beginning with started, so that each successful start has one stopped
\* event at most and each stopped event its start; and no poll finds the
\* timer half-updated, with the active flag false and the Period open or
\* the active flag true and the Period closed.
C32_AlternateAndWhole ==
    /\ \A i \in 1..Len(StartStopEvents) :
          StartStopEvents[i].name =
              IF i % 2 = 1 THEN "started" ELSE "stopped"
    /\ ~CtIsActive(ct) => ~PeriodOpen(ct)
    /\ CtIsActive(ct) => PeriodOpen(ct)

\* the widget with its interval callback and the clock scheduled fairly: the
\* callback is run again and again while the intervals are not paused
\* Fairness is stated on the steps of CtwUpdateAction, told by the op they
\* leave behind.
IntervalFires == ~refresh_paused /\ op' = "ctw_update"

SpecWidgetFair ==
    /\ InitWidget
    /\ [][NextWidget]_vars
    /\ WF_vars(Tick)
    /\ WF_op(IntervalFires)

\* the timer is idle with nothing remaining and its completed event is the
\* last one logged
IdleCompleted ==
    /\ ~CtIsActive(ct)
    /\ Remaining(ct, clock) = 0
    /\ wlog # <<>>
    /\ wlog[Len(wlog)].name = "completed"

\* C31: with the refresh callback scheduled fairly, a started timer that is
\* not stopped by hand becomes idle with remaining 0 and a completed event
\* logged, also when it is reset while it runs.  Stated for the starts the
\* bounds leave room for: the clock can reach the end of the countdown and
\* the log can take the two events of the completion.
C31_RunningLeadsToCompleted ==
    (/\ CtIsActive(ct)
     /\ clock + Remaining(ct, clock) <= MaxClock
     /\ Len(wlog) + 2 <= MaxLogged)
        ~> (IdleCompleted \/ op = "ctw_stop")

----------------------------------------------------------------------------
(* CountdownTimerComponent: widgets/countdown_timer/component.py, one      *)
(* component with its widget.  The widget's messages reach the component   *)
(* through its message queue; the event of a message is registered when    *)
(* the message is made, with elapsed rounded to the log's resolution.      *)

MaxInbox == 2
MaxComponentLog == 3
MaxAccounted == 1
MaxComponentTicks == 4
\* ticks of the clock per unit of the log's resolution
RoundUnit == 3

\* round(elapsed, 3): the nearest multiple of the log's resolution
Round3(x) == ((2 * x + RoundUnit) \div (2 * RoundUnit)) * RoundUnit

\* variant: the event keeps the elapsed of the message as it is
EventDataExact(m) == [name |-> m.name, elapsed |-> m.elapsed]

\* event_data of a message
EventData(m) == [name |-> m.name, elapsed |-> Round3(m.elapsed)]

\* the messages of a list of widget events; elapsed is that of the Period
\* stopped
Messages(events, elapsed) ==
    [i \in 1..Len(events) |->
        [name |-> events[i].name,
         elapsed |-> IF events[i].name = "stopped" THEN elapsed ELSE 0]]

Nothing(t, paused) == [ct |-> t, paused |-> paused, msgs |-> <<>>]

\* CountdownTimerWidget.start with its message
CtwStartFull(t, now, paused) ==
    LET r == CtRemaining(t, now)
        st == CtStart(r.ct, now)
    IN IF st.ret
       THEN [ct |-> st.ct, paused |-> PauseOrResumeTimers(FALSE),
             msgs |-> <<[name |-> "started", elapsed |-> 0]>>]
       ELSE Nothing(st.ct, paused)

\* CountdownTimerWidget.stop with its messages
CtwStopFull(t, now, paused) ==
    [ct |-> CtwStop(t, now).ct,
     paused |-> CtwStopPauses(t, paused),
     msgs |-> Messages(CtwStop(t, now).events, CtStop(t, now).ret)]

\* CountdownTimerWidget._update with the messages of the stop it may call
CtwUpdateFull(t, now, paused) ==
    [ct |-> CtwUpdate(t, now).ct,
     paused |-> CtwUpdatePauses(t, now, paused),
     msgs |-> Messages(CtwUpdate(t, now).events, CtStop(t, now).ret)]

\* CountdownTimerWidget.reset
CtwResetFull(t, now, paused) == CtwUpdateFull(CtReset(t, now).ct, now, paused)

\* CountdownTimerComponent.stop: the widget is stopped when the component
\* has the class active
ComponentStop(t, now, paused, cls) ==
    IF cls THEN CtwStopFull(t, now, paused) ELSE Nothing(t, paused)

\* a step of the component's widget: the timer, the intervals, the messages
\* emitted and their events
ComponentStep(name, res) ==
    /\ Len(inbox) + Len(res.msgs) <= MaxInbox
    /\ Len(elog) + Len(res.msgs) <= MaxComponentLog
    /\ ct' = res.ct
    /\ op' = name
    /\ refresh_paused' = res.paused
    /\ inbox' = inbox \o res.msgs
    /\ elog' = elog \o [i \in 1..Len(res.msgs) |-> EventData(res.msgs[i])]
    /\ UNCHANGED <<clock, pre, ret, restored, openedAt, closedSum>>
    /\ UNCHANGED <<aggVars, storeVars, stateVars, appVars, uiVars, repeatVars,
                   seen>>

\* the start key or the start button on a component that is not active
PressStart ==
    /\ ~removed
    /\ ~active_class
    /\ ComponentStep("press_start", CtwStartFull(ct, clock, refresh_paused))
    /\ UNCHANGED <<ctc_state, active_class, snap, removed, sub>>

\* the stop key or the stop button on an active component
PressStop ==
    /\ ~removed
    /\ active_class
    /\ ComponentStep("press_stop", CtwStopFull(ct, clock, refresh_paused))
    /\ UNCHANGED <<ctc_state, active_class, snap, removed, sub>>

\* Pymodoro.action_reset: ctc.stop(), then ctc.reset()
PressReset ==
    LET st == ComponentStop(ct, clock, refresh_paused, active_class)
        rs == CtwResetFull(st.ct, clock, st.paused)
    IN /\ ~removed
       /\ ComponentStep("press_reset",
                        [ct |-> rs.ct, paused |-> rs.paused,
                         msgs |-> st.msgs \o rs.msgs])
       /\ UNCHANGED <<ctc_state, active_class, snap, removed, sub>>

\* the interval callback _update of the widget
Poll ==
    /\ ~removed
    /\ ~refresh_paused
    /\ ComponentStep("poll", CtwUpdateFull(ct, clock, refresh_paused))
    /\ UNCHANGED <<ctc_state, active_class, snap, removed, sub>>

\* how the timer stood for the component when a new total time came in
StandingOf(t, cls) ==
    IF ~CtIsActive(t) THEN "idle"
    ELSE IF cls THEN "running" ELSE "undelivered"

CountStopped(msgs) == Len(SelectSeq(msgs, LAMBDA m : m.name = "stopped"))

\* CountdownTimerComponent.on_time_input_new_total_seconds
OnTimeInputNewTotalSeconds ==
    \E total_seconds \in 1..MaxInitialSeconds :
        LET st == ComponentStop(ct, clock, refresh_paused, active_class)
            rs == CtwResetFull([st.ct EXCEPT !.initial_seconds = total_seconds],
                               clock, st.paused)
        IN /\ ~removed
           /\ ComponentStep("new_total_seconds",
                            [ct |-> rs.ct, paused |-> rs.paused,
                             msgs |-> st.msgs \o rs.msgs])
           /\ sub' = [total_seconds |-> total_seconds,
                      was |-> StandingOf(ct, active_class),
                      stops |-> CountStopped(st.msgs \o rs.msgs)]
           /\ UNCHANGED <<ctc_state, active_class, snap, removed>>

\* ManualTimeAccounting.action_submit: the AccountedTime message
ActionSubmit ==
    \E elapsed \in 1..MaxAccounted :
        /\ ~removed
        /\ ComponentStep("accounted",
                         [ct |-> ct, paused |-> refresh_paused,
                          msgs |-> <<[name |-> "manually_accounted_time",
                                      elapsed |-> elapsed]>>])
        /\ UNCHANGED <<ctc_state, active_class, snap, removed, sub>>

\* the component handles the next message of its queue:
\* on_countdown_timer_widget_started, _stopped, _completed,
\* on_manual_time_accounting_accounted_time
Handle ==
    /\ inbox # <<>>
    /\ LET m == Head(inbox)
       IN /\ ctc_state' =
                 [total_seconds_completed |->
                      ctc_state.total_seconds_completed
                      + (IF m.name \in {"stopped", "manually_accounted_time"}
                         THEN m.elapsed ELSE 0),
                  num_pomodoros_completed |->
                      ctc_state.num_pomodoros_completed
                      + (IF m.name = "completed" THEN 1 ELSE 0)]
          /\ active_class' =
                 IF m.name = "started" THEN TRUE
                 ELSE IF m.name \in {"stopped", "completed"} THEN FALSE
                 ELSE active_class
    /\ inbox' = Tail(inbox)
    /\ op' = "handle"
    /\ UNCHANGED <<clock, ct, pre, ret, restored, openedAt, closedSum>>
    /\ UNCHANGED <<elog, snap, removed, sub, refresh_paused>>
    /\ UNCHANGED <<aggVars, storeVars, stateVars, appVars, uiVars, repeatVars,
                   seen>>

\* Pymodoro.action_delete_selected_timer: ctc.stop(), ctc.dump_state(),
\* ctc.remove().  The snapshot is the object the component keeps as its
\* state, so its totals are those of ctc_state from here on; was_active is
\* the class at this moment.
ActionDeleteSelectedTimer ==
    LET st == ComponentStop(ct, clock, refresh_paused, active_class)
    IN /\ ~removed
       /\ ComponentStep("delete", st)
       /\ snap' = [taken |-> TRUE,
                   was_active |-> active_class,
                   ran |-> CtIsActive(ct),
                   due |-> ctc_state.total_seconds_completed
                           + CtStop(ct, clock).ret]
       /\ removed' = TRUE
       /\ UNCHANGED <<ctc_state, active_class, sub>>

\* a component made by CountdownTimerComponent.create and mounted, some
\* time after the process started
InitComponent ==
    /\ clock = MaxClock - MaxComponentTicks
    /\ ct = CtNew(MaxInitialSeconds)
    /\ pre = ct
    /\ op = "init"
    /\ ret = 0
    /\ restored = CtNew(DefaultInitialSeconds)
    /\ openedAt = 0
    /\ closedSum = 0
    /\ AggInit /\ StoreInit /\ StateInit /\ AppInit

\* time passes
ComponentTick ==
    /\ clock < MaxClock
    /\ clock' = clock + 1
    /\ op' = "tick"
    /\ UNCHANGED <<ct, pre, ret, restored, openedAt, closedSum>>
    /\ UNCHANGED <<aggVars, storeVars, stateVars, appVars, uiVars, extVars>>

NextComponent ==
    \/ ComponentTick
    \/ PressStart
    \/ PressStop
    \/ PressReset
    \/ Poll
    \/ OnTimeInputNewTotalSeconds
    \/ ActionSubmit
    \/ Handle
    \/ ActionDeleteSelectedTimer

SpecComponent == InitComponent /\ [][NextComponent]_vars

\* C40: after a new total time T > 0 was submitted for a timer, whether it
\* was idle, running, or started with its Started message not yet handled,
\* the timer is idle with total_elapsed 0 and remaining T, and when it was
\* running, one stopped event was logged for the period interrupted.
C40_NewTotalLeavesIdle ==
    op = "new_total_seconds" =>
        /\ ~CtIsActive(ct)
        /\ TotalElapsed(ct, clock) = 0
        /\ Remaining(ct, clock) = sub.total_seconds
        /\ sub.was # "idle" => sub.stops = 1

\* C37: when a running timer is deleted, the snapshot recorded for it has a
\* total_seconds_completed that includes the elapsed of the period just
\* stopped, and was_active false, however the capture of the snapshot and
\* the handling of the Stopped message are ordered.  Stated for the moment
\* every emitted message has been handled.
C37_DeletedSnapshotSettled ==
    (snap.taken /\ snap.ran /\ inbox = <<>>) =>
        /\ ~snap.was_active
        /\ ctc_state.total_seconds_completed = snap.due

RECURSIVE SumLogged(_)
SumLogged(es) ==
    IF es = <<>> THEN 0
    ELSE (IF Head(es).name \in {"stopped", "manually_accounted_time"}
          THEN Head(es).elapsed ELSE 0) + SumLogged(Tail(es))

\* C39: once every emitted message has been handled, the
\* total_seconds_completed of the timer's state is the sum of elapsed over
\* the stopped and manually_accounted_time events logged for the component,
\* and its num_pomodoros_completed is the number of completed events logged
\* for it.
C39_StateMatchesLog ==
    inbox = <<>> =>
        /\ ctc_state.total_seconds_completed = SumLogged(elog)
        /\ ctc_state.num_pomodoros_completed = CountCompleted(elog)

\* C38: no snapshot is dropped: after any creates, deletes, undone deletes
\* and merges on a matching description, every timer id that the state
\* file held or that was mounted in the run is in the next state dumped, as
\* current or as deleted.
C38_NoSnapshotDropped ==
    (dumped.done /\ dumped.raised = "") =>
        \A id \in seen : \E k \in 1..Len(dumped.states) :
            dumped.states[k].id = id

====
